---- MODULE Spec2Model ----
(***************************************************************************)
(* rust-cloud: the content-addressed blob store (service/storage.rs), the  *)
(* metadata repository (db/repository.rs, db/models.rs), the sync engine   *)
(* (service/sync.rs), the file watcher (watcher/file_watcher.rs) and the   *)
(* command-line client's sync run (cli/src/sync.rs).                       *)
(*                                                                         *)
(* Strings are sequences of character codes, byte contents are sequences   *)
(* of small naturals.  SHA-256 is modelled by a streaming hasher that is   *)
(* injective on the bounded contents (the collision-freedom assumption).   *)
(***************************************************************************)
EXTENDS Integers, Sequences, FiniteSets, TLC

VARIABLES
    objects,      \* files under <storage_path>/objects: path -> [data, rewritten]
    srcFiles,     \* files outside the object directory: name -> content
    last,         \* the last blob-store call: its input and what it returned
    files,        \* Database.files: Vec<FileRecord>
    syncs,        \* Database.syncs: Vec<SyncRecord>
    disk,         \* the document at db_path
    clock,        \* the number of times Utc::now() was read
    nextId,       \* the number of ids Uuid::new_v4() has handed out, plus one
    ioFails,      \* the number of writes of the document that failed
    task,         \* per task: the call it is in, its position and its locals
    raw,          \* the events notify has reported, in order
    taken,        \* the number of them the watcher's closure has been called with
    sending,      \* the event the closure is inside blocking_send with, if any
    queue,        \* the mpsc channel between the closure and the consumer task
    jobs,         \* the calls of the callback in order, each with its spawned task
    storeCall,    \* per task: the blob-store call it is inside
    cli           \* the command-line client's sync run

storeVars == <<objects, srcFiles, last>>

metaVars == <<files, syncs, disk, clock, nextId, ioFails, task>>

watchVars == <<raw, taken, sending, queue, jobs>>

vars == <<objects, srcFiles, last, files, syncs, disk, clock, nextId, ioFails, task,
          raw, taken, sending, queue, jobs, storeCall, cli>>

----------------------------------------------------------------------------
(* Bounds *)

MaxLen == 3
HexLen == 3

(* the number of times the clock is read in a run *)
MaxClock == 2

(* the number of writes of the metadata document that fail in a run *)
MaxIoFail == 1

(* StorageConfig.chunk_size, scaled down *)
ChunkSize == 2

Byte == 0 .. 1

(* The byte sequences used as inputs: those of length at most MaxLen in    *)
(* which the two byte values alternate.  Every block of such a sequence is *)
(* one of them again, and a sequence of length 3 holds a repeated block.   *)
Contents == {[i \in 1 .. n |-> (first + i + 1) % 2] : n \in 0 .. MaxLen, first \in Byte}
SrcPaths == {"file1", "file2"}

(* a name under which no file exists *)
NoFile == "nofile"

Min(a, b) == IF a < b THEN a ELSE b

----------------------------------------------------------------------------
(* Sha256 (sha2 crate): new / update / finalize, and format!("{:x}") *)

Sha256New == 0

RECURSIVE Sha256Update(_, _)
Sha256Update(st, data) ==
    IF data = <<>> THEN st
    ELSE Sha256Update(st * (Cardinality(Byte) + 1) + data[1] + 1, Tail(data))

Sha256Finalize(st) == (st * 1103 + 7) % (16 ^ HexLen)

HexChar(d) == IF d < 10 THEN 48 + d ELSE 87 + d

FormatHex(n) == [i \in 1 .. HexLen |-> HexChar((n \div (16 ^ (HexLen - i))) % 16)]

(* the hash of a whole byte sequence fed in one update *)
Sha256Hex(content) == FormatHex(Sha256Finalize(Sha256Update(Sha256New, content)))

(* "manifest-" *)
ManifestPrefix == <<109, 97, 110, 105, 102, 101, 115, 116, 45>>

----------------------------------------------------------------------------
(* File reads: file.read(&mut buffer) returns between 1 and chunk_size     *)
(* bytes while data remains, 0 at end of file.  ReadSplits(n) is the set   *)
(* of possible sequences of read lengths for a file of n bytes.            *)

RECURSIVE ReadSplits(_)
ReadSplits(n) ==
    IF n = 0 THEN {<<>>}
    ELSE UNION {{<<k>> \o s : s \in ReadSplits(n - k)} : k \in 1 .. Min(ChunkSize, n)}

RECURSIVE Blocks(_, _)
Blocks(content, split) ==
    IF split = <<>> THEN <<>>
    ELSE <<SubSeq(content, 1, split[1])>>
         \o Blocks(SubSeq(content, split[1] + 1, Len(content)), Tail(split))

RECURSIVE Concat(_)
Concat(ss) == IF ss = <<>> THEN <<>> ELSE ss[1] \o Concat(Tail(ss))

----------------------------------------------------------------------------
(* The object directory as a value: path -> [data, rewritten]; rewritten   *)
(* tells that the file was written again after it was created (its         *)
(* modification time is no longer its creation time).                      *)

Put(f, k, v) == [x \in DOMAIN f \cup {k} |-> IF x = k THEN v ELSE f[x]]

(* tokio::fs::write / tokio::fs::copy to a path under the object directory *)
fs_write(st, path, content) ==
    Put(st, path, [data |-> content, rewritten |-> path \in DOMAIN st])

(* results: Result<(String, u64)>, Result<Vec<u8>>, Result<(String, u64, Vec<String>)> *)
Ret(ok, err, hash, size, chunks, data) ==
    [ok |-> ok, err |-> err, hash |-> hash, size |-> size, chunks |-> chunks, data |-> data]
Err(e) == Ret(FALSE, e, <<>>, 0, <<>>, <<>>)
OkHash(hash, size) == Ret(TRUE, "", hash, size, <<>>, <<>>)
OkData(data) == Ret(TRUE, "", <<>>, 0, <<>>, data)
OkUnit == Ret(TRUE, "", <<>>, 0, <<>>, <<>>)

hash_to_path(hash) ==
    [prefix |-> SubSeq(hash, 1, 2), rest |-> SubSeq(hash, 3, Len(hash))]

RECURSIVE HashBlocks(_, _)
HashBlocks(hasher, blocks) ==
    IF blocks = <<>> THEN hasher
    ELSE HashBlocks(Sha256Update(hasher, blocks[1]), Tail(blocks))

(* mutant: the hasher is created anew for every block read *)
compute_hash_last_block(src, path, reads) ==
    IF path \notin DOMAIN src THEN Err("Io")
    ELSE LET blocks == Blocks(src[path], reads) IN
         OkHash(FormatHex(Sha256Finalize(
                    IF blocks = <<>> THEN Sha256New
                    ELSE Sha256Update(Sha256New, blocks[Len(blocks)]))), 0)

(* compute_hash: the file is read block by block (reads: the read lengths) *)
compute_hash(src, path, reads) ==
    IF path \notin DOMAIN src THEN Err("Io")
    ELSE OkHash(FormatHex(Sha256Finalize(
                    HashBlocks(Sha256New, Blocks(src[path], reads)))), 0)

file_exists(st, hash) == hash_to_path(hash) \in DOMAIN st

(* mutant: the object is written without looking whether it exists *)
store_content_always_writes(st, content) ==
    LET hash == FormatHex(Sha256Finalize(Sha256Update(Sha256New, content)))
    IN  [st |-> fs_write(st, hash_to_path(hash), content),
         ret |-> OkHash(hash, Len(content))]

store_content(st, content) ==
    LET hash == FormatHex(Sha256Finalize(Sha256Update(Sha256New, content)))
        target == hash_to_path(hash)
    IN  [st |-> IF target \notin DOMAIN st
                THEN fs_write(st, target, content) ELSE st,
         ret |-> OkHash(hash, Len(content))]

(* mutant: the source is copied without looking whether the object exists *)
store_file_always_copies(st, src, source, reads) ==
    LET h == compute_hash(src, source, reads)
    IN  IF ~h.ok THEN [st |-> st, ret |-> h]
        ELSE [st |-> fs_write(st, hash_to_path(h.hash), src[source]),
              ret |-> OkHash(h.hash, Len(src[source]))]

store_file(st, src, source, reads) ==
    LET h == compute_hash(src, source, reads)
        target == hash_to_path(h.hash)
    IN  IF ~h.ok THEN [st |-> st, ret |-> h]
        ELSE [st |-> IF target \notin DOMAIN st
                     THEN fs_write(st, target, src[source]) ELSE st,
              ret |-> OkHash(h.hash, Len(src[source]))]

retrieve_file(st, hash) ==
    LET path == hash_to_path(hash)
    IN  IF path \notin DOMAIN st THEN Err("NotFound")
        ELSE OkData(st[path].data)

(* mutant: deleting a hash that has no object is an error *)
storage_delete_file_must_exist(st, hash) ==
    LET path == hash_to_path(hash)
    IN  IF path \in DOMAIN st
        THEN [st |-> [q \in DOMAIN st \ {path} |-> st[q]], ret |-> OkUnit]
        ELSE [st |-> st, ret |-> Err("NotFound")]

(* StorageService::delete_file: if path.exists() { remove_file }; Ok(()) *)
storage_delete_file(st, hash) ==
    LET path == hash_to_path(hash)
    IN  [st |-> IF path \in DOMAIN st THEN [q \in DOMAIN st \ {path} |-> st[q]] ELSE st,
         ret |-> OkUnit]

----------------------------------------------------------------------------
(* ChunkManifest and its serde_json document: the document is the byte     *)
(* sequence  file_size, number of chunks, file_hash, chunk hashes.         *)

ManifestToJson(m) ==
    <<m.file_size, Len(m.chunks)>> \o m.file_hash \o Concat(m.chunks)

ManifestFromJson(doc) ==
    IF Len(doc) < 2 + HexLen \/ Len(doc) # 2 + HexLen * (1 + doc[2])
    THEN [ok |-> FALSE, file_hash |-> <<>>, file_size |-> 0, chunks |-> <<>>]
    ELSE [ok |-> TRUE,
          file_hash |-> SubSeq(doc, 3, 2 + HexLen),
          file_size |-> doc[1],
          chunks |-> [i \in 1 .. doc[2] |->
                        SubSeq(doc, 3 + HexLen * i, 2 + HexLen * (i + 1))]]

(* the chunk loop of store_chunked: store_content on every block read *)
RECURSIVE StoreBlocks(_, _)
StoreBlocks(st, blocks) ==
    IF blocks = <<>> THEN [st |-> st, chunks |-> <<>>]
    ELSE LET one == store_content(st, blocks[1])
             rest == StoreBlocks(one.st, Tail(blocks))
         IN  [st |-> rest.st, chunks |-> <<one.ret.hash>> \o rest.chunks]

(* mutant: the loop stops at the first block shorter than the buffer *)
store_chunked_drops_short_block(st, src, source, reads) ==
    IF source \notin DOMAIN src THEN [st |-> st, ret |-> Err("Io")]
    ELSE
    LET file_size == Len(src[source]) IN
    IF file_size <= ChunkSize
    THEN LET r == store_file(st, src, source, reads)
         IN  [st |-> r.st,
              ret |-> IF r.ret.ok
                      THEN Ret(TRUE, "", r.ret.hash, r.ret.size, <<r.ret.hash>>, <<>>)
                      ELSE r.ret]
    ELSE LET all == Blocks(src[source], reads)
             full == {i \in 1 .. Len(all) : \A j \in 1 .. i : Len(all[j]) = ChunkSize}
             blocks == SubSeq(all, 1, Cardinality(full))
             stored == StoreBlocks(st, blocks)
             file_hash == FormatHex(Sha256Finalize(HashBlocks(Sha256New, blocks)))
             manifest == [file_hash |-> file_hash, file_size |-> file_size,
                          chunks |-> stored.chunks]
             manifest_path == hash_to_path(ManifestPrefix \o file_hash)
         IN  [st |-> fs_write(stored.st, manifest_path, ManifestToJson(manifest)),
              ret |-> Ret(TRUE, "", file_hash, file_size, stored.chunks, <<>>)]

(* mutant: a file of exactly chunk_size goes into the chunk loop *)
store_chunked_below_threshold(st, src, source, reads) ==
    IF source \notin DOMAIN src THEN [st |-> st, ret |-> Err("Io")]
    ELSE
    LET file_size == Len(src[source]) IN
    IF file_size < ChunkSize
    THEN LET r == store_file(st, src, source, reads)
         IN  [st |-> r.st,
              ret |-> IF r.ret.ok
                      THEN Ret(TRUE, "", r.ret.hash, r.ret.size, <<r.ret.hash>>, <<>>)
                      ELSE r.ret]
    ELSE LET blocks == Blocks(src[source], reads)
             stored == StoreBlocks(st, blocks)
             file_hash == FormatHex(Sha256Finalize(HashBlocks(Sha256New, blocks)))
             manifest == [file_hash |-> file_hash, file_size |-> file_size,
                          chunks |-> stored.chunks]
             manifest_path == hash_to_path(ManifestPrefix \o file_hash)
         IN  [st |-> fs_write(stored.st, manifest_path, ManifestToJson(manifest)),
              ret |-> Ret(TRUE, "", file_hash, file_size, stored.chunks, <<>>)]

store_chunked(st, src, source, reads) ==
    IF source \notin DOMAIN src THEN [st |-> st, ret |-> Err("Io")]
    ELSE
    LET file_size == Len(src[source]) IN
    IF file_size <= ChunkSize
    THEN LET r == store_file(st, src, source, reads)
         IN  [st |-> r.st,
              ret |-> IF r.ret.ok
                      THEN Ret(TRUE, "", r.ret.hash, r.ret.size, <<r.ret.hash>>, <<>>)
                      ELSE r.ret]
    ELSE LET blocks == Blocks(src[source], reads)
             stored == StoreBlocks(st, blocks)
             file_hash == FormatHex(Sha256Finalize(HashBlocks(Sha256New, blocks)))
             manifest == [file_hash |-> file_hash, file_size |-> file_size,
                          chunks |-> stored.chunks]
             manifest_path == hash_to_path(ManifestPrefix \o file_hash)
         IN  [st |-> fs_write(stored.st, manifest_path, ManifestToJson(manifest)),
              ret |-> Ret(TRUE, "", file_hash, file_size, stored.chunks, <<>>)]

RECURSIVE RetrieveChunks(_, _)
RetrieveChunks(st, chunks) ==
    IF chunks = <<>> THEN OkData(<<>>)
    ELSE LET c == retrieve_file(st, chunks[1]) IN
         IF ~c.ok THEN c
         ELSE LET rest == RetrieveChunks(st, Tail(chunks)) IN
              IF ~rest.ok THEN rest ELSE OkData(c.data \o rest.data)

retrieve_chunked(st, hash) ==
    LET manifest_path == hash_to_path(ManifestPrefix \o hash) IN
    IF manifest_path \in DOMAIN st
    THEN LET manifest == ManifestFromJson(st[manifest_path].data) IN
         IF ~manifest.ok THEN Err("Serialization")
         ELSE RetrieveChunks(st, manifest.chunks)
    ELSE retrieve_file(st, hash)

----------------------------------------------------------------------------
(* Blob store calls, one action per call.  `last` records the call: the    *)
(* operation, its input (source file, bytes or hash), what it returned,    *)
(* and whether it is linked to the call before it: a store of the content  *)
(* that call stored, or a retrieve of the hash that call returned; `bytes` *)
(* of a linked retrieve is the content that call stored.                   *)

Call(op, source, bytes, hash, linked, ret) ==
    [op |-> op, source |-> source, bytes |-> bytes, hash |-> hash,
     linked |-> linked, ret |-> ret]

NoCall == Call("none", "", <<>>, <<>>, FALSE, OkUnit)

(* what a caller holds: the bytes of its files, and the hashes just returned *)
HandContents == {srcFiles[p] : p \in DOMAIN srcFiles}

HandHashes ==
    (IF last.ret.hash = <<>> THEN {} ELSE {last.ret.hash})
    \cup {last.ret.chunks[i] : i \in 1 .. Len(last.ret.chunks)}

SizeOf(p) == IF p \in DOMAIN srcFiles THEN Len(srcFiles[p]) ELSE 0

(* the content the last call stored, when it was a successful store *)
LastStored ==
    IF last.op = "store_content" THEN last.bytes
    ELSE IF last.source \in DOMAIN srcFiles THEN srcFiles[last.source] ELSE <<>>

ReturnedBy(ops, h) == last.op \in ops /\ last.ret.ok /\ h = last.ret.hash

StoreContent(b) ==
    /\ LET r == store_content(objects, b) IN
        /\ objects' = r.st
        /\ last' = Call("store_content", "", b, <<>>,
                        last.op = "store_content" /\ last.bytes = b, r.ret)
    /\ UNCHANGED <<srcFiles, metaVars, watchVars, storeCall, cli>>

StoreFile(p) ==
    /\ \E reads \in ReadSplits(SizeOf(p)) :
        LET r == store_file(objects, srcFiles, p, reads) IN
        /\ objects' = r.st
        /\ last' = Call("store_file", p, <<>>, <<>>,
                        /\ last.op = "store_file" /\ last.ret.ok /\ r.ret.ok
                        /\ last.source # p /\ srcFiles[last.source] = srcFiles[p],
                        r.ret)
    /\ UNCHANGED <<srcFiles, metaVars, watchVars, storeCall, cli>>

StoreChunked(p) ==
    /\ \E reads \in ReadSplits(SizeOf(p)) :
        LET r == store_chunked(objects, srcFiles, p, reads) IN
        /\ objects' = r.st
        /\ last' = Call("store_chunked", p, <<>>, <<>>, FALSE, r.ret)
    /\ UNCHANGED <<srcFiles, metaVars, watchVars, storeCall, cli>>

RetrieveFile(h) ==
    /\ LET linked == ReturnedBy({"store_content", "store_file"}, h) IN
        last' = Call("retrieve_file", "", IF linked THEN LastStored ELSE <<>>, h,
                     linked, retrieve_file(objects, h))
    /\ UNCHANGED <<objects, srcFiles, metaVars, watchVars, storeCall, cli>>

(* delete_file(hash); linked tells that the object was there *)
DeleteObject(h) ==
    /\ LET r == storage_delete_file(objects, h) IN
        /\ objects' = r.st
        /\ last' = Call("delete_file", "", <<>>, h, file_exists(objects, h), r.ret)
    /\ UNCHANGED <<srcFiles, metaVars, watchVars, storeCall, cli>>

RetrieveChunked(h) ==
    /\ LET linked == ReturnedBy({"store_chunked"}, h) IN
        last' = Call("retrieve_chunked", "", IF linked THEN LastStored ELSE <<>>, h,
                     linked, retrieve_chunked(objects, h))
    /\ UNCHANGED <<objects, srcFiles, metaVars, watchVars, storeCall, cli>>

----------------------------------------------------------------------------
(* db/models.rs: the records of the metadata document *)

Tasks == {"t1", "t2"}
FilePaths == {"a", "b"}
DeviceIds == {1}

(* Option<T> is a sequence of length at most one *)
None == <<>>
Some(x) == <<x>>

(* the (hash, size) pairs the callers pass: no hash, or the hash and the   *)
(* length of a content                                                     *)
FileData ==
    {[hash |-> None, size |-> 0]}
    \cup {[hash |-> Some(Sha256Hex(c)), size |-> Len(c)] :
            c \in {<<0>>}}

NewFileRecords == {[path |-> p, hash |-> d.hash, size |-> d.size] :
                     p \in FilePaths, d \in FileData}

(* FileRecord::new; id is the fresh Uuid, now the clock value read *)
FileRecord_new(new_record, id, now) ==
    [id |-> id, path |-> new_record.path, hash |-> new_record.hash,
     size |-> new_record.size, version |-> 1, created_at |-> now, updated_at |-> now]

(* mutant: the time is refreshed but the version is left as it was *)
increment_version_keeps_version(file, now) ==
    [file EXCEPT !.updated_at = now]

increment_version(file, now) ==
    [file EXCEPT !.version = @ + 1, !.updated_at = now]

SyncRecord_new(new_record, id, now) ==
    [id |-> id, device_id |-> new_record.device_id, file_id |-> new_record.file_id,
     sync_status |-> new_record.sync_status, last_sync_at |-> now]

(* Database::default() *)
Database_default == [files |-> <<>>, syncs |-> <<>>]

----------------------------------------------------------------------------
(* db/repository.rs.  Every operation takes the mutex, works on the        *)
(* document in memory and releases the mutex; a mutation then calls save,  *)
(* which takes the mutex again.  The operators below are the sections      *)
(* under the mutex: from the document `data` to the new document and the   *)
(* value the operation returns when its save succeeds.                     *)

(* error.rs: the error values.  NotFound and AlreadyExists carry a path:   *)
(* "file:<id>", "sync:<id>" or the path of a file; Io is the error of the  *)
(* write to db_path.                                                       *)
Error(kind, about, id, path) == [kind |-> kind, about |-> about, id |-> id, path |-> path]
NoError == Error("", "", 0, "")
NotFoundId(about, id) == Error("NotFound", about, id, "")
NotFoundPath(path) == Error("NotFound", "path", 0, path)
AlreadyExists(path) == Error("AlreadyExists", "path", 0, path)
IoError == Error("Io", "db_path", 0, "")

RepoRet(ok, err, rec) == [ok |-> ok, err |-> err, rec |-> rec]
RepoOk(rec) == RepoRet(TRUE, NoError, rec)
RepoErr(err) == RepoRet(FALSE, err, None)

(* First(hits): the first index of a set of indices, 0 when it is empty *)
First(hits) == IF hits = {} THEN 0 ELSE CHOOSE i \in hits : \A j \in hits : i <= j

(* iter().position(|r| r.id == id), iter().find(|r| r.id == id) *)
PositionOfId(records, id) == First({i \in 1 .. Len(records) : records[i].id = id})

(* iter().find(|f| f.path == path) *)
PositionOfPath(records, path) == First({i \in 1 .. Len(records) : records[i].path = path})

(* Vec::remove(idx) *)
Remove(seq, idx) == SubSeq(seq, 1, idx - 1) \o SubSeq(seq, idx + 1, Len(seq))

(* mutant: the record is added without looking for the path *)
create_file_unchecked(data, new_file, id, now) ==
    LET record == FileRecord_new(new_file, id, now)
    IN  [data |-> [data EXCEPT !.files = Append(@, record)],
         ret |-> RepoOk(Some(record))]

create_file(data, new_file, id, now) ==
    IF \E i \in 1 .. Len(data.files) : data.files[i].path = new_file.path
    THEN [data |-> data, ret |-> RepoErr(AlreadyExists(new_file.path))]
    ELSE LET record == FileRecord_new(new_file, id, now)
         IN  [data |-> [data EXCEPT !.files = Append(@, record)],
              ret |-> RepoOk(Some(record))]

get_file_by_path(data, path) ==
    LET idx == PositionOfPath(data.files, path)
    IN  IF idx = 0 THEN RepoErr(NotFoundPath(path))
        ELSE RepoOk(Some(data.files[idx]))

get_file_by_id(data, id) ==
    LET idx == PositionOfId(data.files, id)
    IN  IF idx = 0 THEN RepoErr(NotFoundId("file", id))
        ELSE RepoOk(Some(data.files[idx]))

(* mutant: the version is raised only when the hash changes *)
update_file_same_hash_same_version(data, id, hash, size, now) ==
    LET idx == PositionOfId(data.files, id)
    IN  IF idx = 0 THEN [data |-> data, ret |-> RepoErr(NotFoundId("file", id))]
        ELSE LET changed == [data.files[idx] EXCEPT !.hash = hash, !.size = size]
                 file == IF data.files[idx].hash = hash
                         THEN [changed EXCEPT !.updated_at = now]
                         ELSE increment_version(changed, now)
             IN  [data |-> [data EXCEPT !.files[idx] = file],
                  ret |-> RepoOk(Some(file))]

update_file(data, id, hash, size, now) ==
    LET idx == PositionOfId(data.files, id)
    IN  IF idx = 0 THEN [data |-> data, ret |-> RepoErr(NotFoundId("file", id))]
        ELSE LET file == increment_version(
                            [data.files[idx] EXCEPT !.hash = hash, !.size = size], now)
             IN  [data |-> [data EXCEPT !.files[idx] = file],
                  ret |-> RepoOk(Some(file))]

delete_file_keeps_syncs(data, id) ==
    LET idx == PositionOfId(data.files, id)
    IN  IF idx = 0 THEN [data |-> data, ret |-> RepoErr(NotFoundId("file", id))]
        ELSE [data |-> [files |-> Remove(data.files, idx), syncs |-> data.syncs],
              ret |-> RepoOk(None)]

delete_file(data, id) ==
    LET idx == PositionOfId(data.files, id)
    IN  IF idx = 0 THEN [data |-> data, ret |-> RepoErr(NotFoundId("file", id))]
        ELSE [data |-> [files |-> Remove(data.files, idx),
                        syncs |-> SelectSeq(data.syncs, LAMBDA s : s.file_id # id)],
              ret |-> RepoOk(None)]

list_files(data) == data.files

(* mutant: the sync record is added without looking for the file *)
create_sync_unchecked(data, new_sync, id, now) ==
    LET record == SyncRecord_new(new_sync, id, now)
    IN  [data |-> [data EXCEPT !.syncs = Append(@, record)],
         ret |-> RepoOk(Some(record))]

create_sync(data, new_sync, id, now) ==
    IF ~\E i \in 1 .. Len(data.files) : data.files[i].id = new_sync.file_id
    THEN [data |-> data, ret |-> RepoErr(NotFoundId("file", new_sync.file_id))]
    ELSE LET record == SyncRecord_new(new_sync, id, now)
         IN  [data |-> [data EXCEPT !.syncs = Append(@, record)],
              ret |-> RepoOk(Some(record))]

update_sync_status(data, id, status, now) ==
    LET idx == PositionOfId(data.syncs, id)
    IN  IF idx = 0
        THEN [data |-> data, ret |-> RepoErr(NotFoundId("sync", id))]
        ELSE LET sync == [data.syncs[idx] EXCEPT !.sync_status = status,
                                                 !.last_sync_at = now]
             IN  [data |-> [data EXCEPT !.syncs[idx] = sync],
                  ret |-> RepoOk(Some(sync))]

list_syncs_by_file(data, file_id) ==
    SelectSeq(data.syncs, LAMBDA s : s.file_id = file_id)

(* save: the document is serialised and written to db_path in one section  *)
(* under the mutex.  The write either succeeds, or fails before the file   *)
(* is opened (the old document stays), or fails after the file was         *)
(* truncated.                                                              *)
to_string_pretty(data) == [kind |-> "json", files |-> data.files, syncs |-> data.syncs]
NoDocument == [kind |-> "absent", files |-> <<>>, syncs |-> <<>>]
Truncated == [kind |-> "truncated", files |-> <<>>, syncs |-> <<>>]

(* serde_json::from_str: only a whole document parses *)
from_str(doc) ==
    IF doc.kind = "json"
    THEN [ok |-> TRUE, data |-> [files |-> doc.files, syncs |-> doc.syncs]]
    ELSE [ok |-> FALSE, data |-> Database_default]

(* Repository::new: the document at db_path, the default when there is     *)
(* none or it does not parse                                               *)
Repository_new(doc) ==
    IF doc.kind = "absent" THEN Database_default
    ELSE LET parsed == from_str(doc) IN
         IF parsed.ok THEN parsed.data ELSE Database_default

(* a file at db_path whose bytes are not UTF-8, such as a document cut      *)
(* inside a character of a path                                            *)
NotUtf8 == [kind |-> "binary", files |-> <<>>, syncs |-> <<>>]

(* tokio::fs::read_to_string: an error when the bytes are not UTF-8 *)
read_to_string(doc) ==
    IF doc.kind = "binary" THEN [ok |-> FALSE, content |-> doc]
    ELSE [ok |-> TRUE, content |-> doc]

(* Repository::new with its result: read_to_string(..).await? returns the  *)
(* error of the read, every text gives a repository                        *)
Repository_open(doc) ==
    IF doc.kind # "absent" /\ ~read_to_string(doc).ok THEN RepoErr(IoError)
    ELSE RepoOk(Some(Repository_new(doc)))

WriteOutcomes == {"written", "not opened", "truncated"}

fs_write_db(old, content, outcome) ==
    IF outcome = "written" THEN content
    ELSE IF outcome = "truncated" THEN Truncated ELSE old

(* mutant: the document is serialised but not written *)
save_unwritten(old, data, outcome) ==
    [disk |-> IF outcome = "truncated" THEN Truncated ELSE old,
     ret |-> IF outcome = "written" THEN RepoOk(None) ELSE RepoErr(IoError)]

save(old, data, outcome) ==
    [disk |-> fs_write_db(old, to_string_pretty(data), outcome),
     ret |-> IF outcome = "written" THEN RepoOk(None) ELSE RepoErr(IoError)]

----------------------------------------------------------------------------
(* Tasks.  A task is idle or inside one call; pc is the next section of    *)
(* the call, "return" when the call has its result.  seen, made and        *)
(* disturbed are records of the call for the claims: the FileRecord as     *)
(* update_file found it, the id of the SyncRecord sync_file created, and   *)
(* whether another task changed the tables while the call was running.     *)

IdleTask ==
    [pc |-> "idle", op |-> "none",
     new_file |-> [path |-> "", hash |-> None, size |-> 0],
     file_id |-> 0, device_id |-> 0, action |-> "",
     local_files |-> <<>>, remote_paths |-> {}, i |-> 0, plans |-> <<>>,
     sync_record |-> RepoOk(None), result |-> RepoOk(None),
     record |-> RepoOk(None), ret |-> RepoOk(None),
     seen |-> None, made |-> 0, disturbed |-> FALSE,
     body |-> <<>>, status |-> "", guard |-> FALSE]

Data == [files |-> files, syncs |-> syncs]

(* the effect of one save (s: what save gave) on the document at db_path *)
Written(s) ==
    /\ s.ret.ok \/ ioFails < MaxIoFail
    /\ disk' = s.disk
    /\ ioFails' = IF s.ret.ok THEN ioFails ELSE ioFails + 1

Disturb(tasks, t) ==
    [u \in Tasks |-> IF u # t /\ tasks[u].pc # "idle"
                     THEN [tasks[u] EXCEPT !.disturbed = TRUE] ELSE tasks[u]]

(* one section under the mutex by task t: r is what the repository         *)
(* operator gave; a section that changes the document reads the clock      *)
(* `ticks` times and draws `ids` fresh ids                                 *)
Section(t, r, ticks, ids, tk_ok, tk_err) ==
    /\ IF r.ret.ok
       THEN /\ clock + ticks <= MaxClock
            /\ files' = r.data.files
            /\ syncs' = r.data.syncs
            /\ clock' = clock + ticks
            /\ nextId' = nextId + ids
            /\ task' = Disturb([task EXCEPT ![t] = tk_ok], t)
       ELSE /\ task' = [task EXCEPT ![t] = tk_err]
            /\ UNCHANGED <<files, syncs, clock, nextId>>
    /\ UNCHANGED <<disk, ioFails, storeVars, watchVars, storeCall, cli>>

CreateFile(t, new_file) ==
    /\ task[t].pc = "idle"
    /\ LET tk == [IdleTask EXCEPT !.op = "create_file", !.new_file = new_file]
           r == create_file(Data, new_file, nextId, clock + 1)
       IN  Section(t, r, 1, 1,
                   [tk EXCEPT !.pc = "save", !.record = r.ret],
                   [tk EXCEPT !.pc = "return", !.ret = r.ret])

UpdateFile(t, id, d) ==
    /\ task[t].pc = "idle"
    /\ LET tk == [IdleTask EXCEPT !.op = "update_file", !.file_id = id,
                                  !.new_file = [path |-> "", hash |-> d.hash,
                                                size |-> d.size],
                                  !.seen = get_file_by_id(Data, id).rec]
           r == update_file(Data, id, d.hash, d.size, clock + 1)
       IN  Section(t, r, 1, 0,
                   [tk EXCEPT !.pc = "save", !.record = r.ret],
                   [tk EXCEPT !.pc = "return", !.ret = r.ret])

DeleteFile(t, id) ==
    /\ task[t].pc = "idle"
    /\ LET tk == [IdleTask EXCEPT !.op = "delete_file", !.file_id = id]
           r == delete_file(Data, id)
       IN  Section(t, r, 0, 0,
                   [tk EXCEPT !.pc = "save", !.record = r.ret],
                   [tk EXCEPT !.pc = "return", !.ret = r.ret])

(* self.save().await?; Ok(record) *)
Save(t) ==
    /\ task[t].pc = "save"
    /\ \E outcome \in WriteOutcomes :
        LET s == save(disk, Data, outcome) IN
        /\ Written(s)
        /\ task' = [task EXCEPT ![t] =
                      [@ EXCEPT !.pc = "return",
                                !.ret = IF s.ret.ok THEN task[t].record ELSE s.ret]]
    /\ UNCHANGED <<files, syncs, clock, nextId, storeVars, watchVars, storeCall, cli>>

(* the caller takes the result *)
Return(t) ==
    /\ task[t].pc = "return"
    /\ task' = [task EXCEPT ![t] = IdleTask]
    /\ UNCHANGED <<files, syncs, disk, clock, nextId, ioFails, storeVars, watchVars, storeCall, cli>>

(* the ids handed out so far: those of the records and of deleted records *)
KnownIds == 1 .. (nextId - 1)

(* models.rs: enum SyncStatus *)
SyncStatus == {"Pending", "Syncing", "Completed", "Failed"}

(* Repository::create_sync called by a task: the section under the mutex, *)
(* then save                                                               *)
CreateSync(t, file_id, device_id, status) ==
    /\ task[t].pc = "idle"
    /\ LET tk == [IdleTask EXCEPT !.op = "create_sync", !.file_id = file_id,
                                  !.device_id = device_id]
           new_sync == [device_id |-> device_id, file_id |-> file_id,
                        sync_status |-> status]
           r == create_sync(Data, new_sync, nextId, clock + 1)
       IN  Section(t, r, 1, 1,
                   [tk EXCEPT !.pc = "save", !.record = r.ret, !.made = nextId],
                   [tk EXCEPT !.pc = "return", !.ret = r.ret])

(* Repository::update_sync_status called by a task; seen is the record as  *)
(* the call found it                                                       *)
UpdateSyncStatus(t, id, status) ==
    /\ task[t].pc = "idle"
    /\ LET idx == PositionOfId(syncs, id)
           tk == [IdleTask EXCEPT !.op = "update_sync_status", !.file_id = id,
                                  !.action = status,
                                  !.seen = IF idx = 0 THEN None ELSE Some(syncs[idx])]
           r == update_sync_status(Data, id, status, clock + 1)
       IN  Section(t, r, 1, 0,
                   [tk EXCEPT !.pc = "save", !.record = r.ret],
                   [tk EXCEPT !.pc = "return", !.ret = r.ret])

(* Repository::list_syncs_by_file called by a task: one section under the  *)
(* mutex, nothing is written                                               *)
ListSyncsByFile(t, file_id) ==
    /\ task[t].pc = "idle"
    /\ task' = [task EXCEPT ![t] =
                  [IdleTask EXCEPT !.op = "list_syncs_by_file", !.file_id = file_id,
                                   !.pc = "return",
                                   !.ret = RepoOk(list_syncs_by_file(Data, file_id))]]
    /\ UNCHANGED <<files, syncs, disk, clock, nextId, ioFails, storeVars, watchVars, storeCall, cli>>

(* main.rs: Repository::new(db_path).await? before anything uses the       *)
(* repository; when it fails the server does not start                     *)
OpenRepository(t) ==
    /\ task[t].pc = "new"
    /\ LET r == Repository_open(disk) IN
       IF r.ok
       THEN /\ files' = r.rec[1].files
            /\ syncs' = r.rec[1].syncs
            /\ nextId' = Len(files') + Len(syncs') + 1
            /\ task' = [task EXCEPT ![t] = IdleTask]
       ELSE /\ task' = [task EXCEPT ![t] = [@ EXCEPT !.pc = "failed", !.ret = r]]
            /\ UNCHANGED <<files, syncs, nextId>>
    /\ UNCHANGED <<disk, clock, ioFails, storeVars, watchVars, storeCall, cli>>

----------------------------------------------------------------------------
(* The mutex of the repository.  guard tells that the task holds the       *)
(* MutexGuard of self.data; lock().await returns when no task holds it.    *)

MutexFree == \A u \in Tasks : ~task[u].guard

(* the calls of the mutating operations, each with the id it is called     *)
(* with: one task works on the files, the other on the sync records        *)
RepoCalls(t) ==
    IF t = "t2"
    THEN {[op |-> "create_file", id |-> 0]}
         \cup {[op |-> op, id |-> id] : op \in {"update_file", "delete_file"},
                                        id \in KnownIds}
    ELSE {[op |-> op, id |-> id] : op \in {"create_sync", "update_sync_status"},
                                  id \in KnownIds}

(* the section of the operation the task is in *)
RepoSection(tk, data, id, now) ==
    CASE tk.op = "create_file" -> create_file(data, tk.new_file, id, now)
      [] tk.op = "update_file" ->
            update_file(data, tk.file_id, tk.new_file.hash, tk.new_file.size, now)
      [] tk.op = "delete_file" -> delete_file(data, tk.file_id)
      [] tk.op = "create_sync" ->
            create_sync(data, [device_id |-> tk.device_id, file_id |-> tk.file_id,
                               sync_status |-> tk.action], id, now)
      [] tk.op = "update_sync_status" ->
            update_sync_status(data, tk.file_id, tk.action, now)

(* the reads of the clock and the fresh ids of a section that succeeds *)
Ticks(op) == IF op = "delete_file" THEN 0 ELSE 1
Ids(op) == IF op \in {"create_file", "create_sync"} THEN 1 ELSE 0

(* mutant: the guard is not dropped before save is called *)
drop_data_forgotten(tk) == tk

(* drop(data) *)
drop_data(tk) == [tk EXCEPT !.guard = FALSE]

(* a task calls an operation: it reaches self.data.lock().await.  The      *)
(* calls of a run are bounded by the clock reads left for them.            *)
CallRepo(t, c) ==
    /\ task[t].pc = "idle"
    /\ clock + Cardinality({u \in Tasks : task[u].pc \in {"lock", "section"}}) < MaxClock
    /\ task' = [task EXCEPT ![t] =
                  [IdleTask EXCEPT !.op = c.op, !.file_id = c.id, !.pc = "lock",
                                   !.new_file.path = "a",
                                   !.device_id = 1,
                                   !.action = IF c.op = "create_sync" THEN "Pending"
                                              ELSE IF c.op = "update_sync_status"
                                              THEN "Completed" ELSE ""]]
    /\ UNCHANGED <<files, syncs, disk, clock, nextId, ioFails, storeVars, watchVars,
                   storeCall, cli>>

(* lock().await returns: in the operation, or in save *)
AcquireMutex(t) ==
    /\ task[t].pc \in {"lock", "save_lock"}
    /\ MutexFree
    /\ task' = [task EXCEPT ![t] =
                  [@ EXCEPT !.guard = TRUE,
                            !.pc = IF @ = "lock" THEN "section" ELSE "write"]]
    /\ UNCHANGED <<files, syncs, disk, clock, nextId, ioFails, storeVars, watchVars,
                   storeCall, cli>>

(* the section of the operation: an error returns at once and the guard    *)
(* goes with the scope; otherwise drop(data), then self.save()             *)
RunSection(t) ==
    /\ task[t].pc = "section"
    /\ LET tk == task[t]
           r == RepoSection(tk, Data, nextId, clock + 1)
       IN  Section(t, r, Ticks(tk.op), Ids(tk.op),
                   drop_data([tk EXCEPT !.pc = "save_lock", !.record = r.ret]),
                   [tk EXCEPT !.pc = "return", !.ret = r.ret, !.guard = FALSE])

(* save under the guard: to_string_pretty, tokio::fs::write; the guard     *)
(* goes when save returns                                                  *)
WriteDocument(t) ==
    /\ task[t].pc = "write"
    /\ \E outcome \in WriteOutcomes :
        LET s == save(disk, Data, outcome) IN
        /\ Written(s)
        /\ task' = [task EXCEPT ![t] =
                      [@ EXCEPT !.pc = "return", !.guard = FALSE,
                                !.ret = IF s.ret.ok THEN task[t].record ELSE s.ret]]
    /\ UNCHANGED <<files, syncs, clock, nextId, storeVars, watchVars, storeCall, cli>>

----------------------------------------------------------------------------
(* service/sync.rs: create_sync_plan *)

SyncActions == {"Upload", "Download", "Delete", "Skip"}

SyncPlan(file_id, path, action) == [file_id |-> file_id, path |-> path, action |-> action]

(* the client's id of its record for a path: never an id of the server *)
LocalId(path) == IF path = "a" THEN 11 ELSE 12

(* the records a client holds for a path: one without content at version  *)
(* 1, one with content at version 2                                        *)
LocalRecords(path) ==
    {[id |-> LocalId(path), path |-> path, hash |-> d.hash, size |-> d.size,
      version |-> d.size + 1, created_at |-> 0, updated_at |-> 0] : d \in FileData}

(* a client's list: at most one record per path, in either order *)
LocalLists ==
    {<<>>}
    \cup UNION {{<<r>> : r \in LocalRecords(p)} : p \in FilePaths}
    \cup UNION {{<<r, s>> : r \in LocalRecords(pq[1]), s \in LocalRecords(pq[2])} :
                  pq \in {x \in FilePaths \X FilePaths : x[1] # x[2]}}

(* mutant: an equal remote version counts as newer *)
plan_item_newer_or_equal(local, remote_paths, lookup) ==
    IF local.path \notin remote_paths
    THEN <<SyncPlan(local.id, local.path, "Upload")>>
    ELSE IF lookup.ok
    THEN LET remote == lookup.rec[1] IN
         IF remote.hash # local.hash
         THEN <<SyncPlan(local.id, local.path,
                         IF remote.version >= local.version THEN "Download"
                         ELSE "Upload")>>
         ELSE <<SyncPlan(local.id, local.path, "Skip")>>
    ELSE <<>>

(* mutant: a newer remote version is planned as Delete *)
plan_item_deletes_stale(local, remote_paths, lookup) ==
    IF local.path \notin remote_paths
    THEN <<SyncPlan(local.id, local.path, "Upload")>>
    ELSE IF lookup.ok
    THEN LET remote == lookup.rec[1] IN
         IF remote.hash # local.hash
         THEN <<SyncPlan(local.id, local.path,
                         IF remote.version > local.version THEN "Delete"
                         ELSE "Upload")>>
         ELSE <<SyncPlan(local.id, local.path, "Skip")>>
    ELSE <<>>

(* the body of the loop for one local record: the items pushed (one or     *)
(* none); lookup is the result of get_file_by_path(local.path)             *)
plan_item(local, remote_paths, lookup) ==
    IF local.path \notin remote_paths
    THEN <<SyncPlan(local.id, local.path, "Upload")>>
    ELSE IF lookup.ok
    THEN LET remote == lookup.rec[1] IN
         IF remote.hash # local.hash
         THEN <<SyncPlan(local.id, local.path,
                         IF remote.version > local.version THEN "Download"
                         ELSE "Upload")>>
         ELSE <<SyncPlan(local.id, local.path, "Skip")>>
    ELSE <<>>

(* list_files and the set of remote paths taken from it *)
CreateSyncPlan(t, local_files) ==
    /\ task[t].pc = "idle"
    /\ LET remote_files == list_files(Data) IN
        task' = [task EXCEPT ![t] =
                   [IdleTask EXCEPT
                      !.pc = IF local_files = <<>> THEN "return" ELSE "plan",
                      !.op = "create_sync_plan",
                      !.local_files = local_files,
                      !.remote_paths = {remote_files[k].path :
                                          k \in 1 .. Len(remote_files)},
                      !.i = 1]]
    /\ UNCHANGED <<files, syncs, disk, clock, nextId, ioFails, storeVars, watchVars, storeCall, cli>>

(* one turn of the loop; Ok(plans) after the last *)
PlanStep(t) ==
    /\ task[t].pc = "plan"
    /\ LET tk == task[t]
           local == tk.local_files[tk.i]
           item == plan_item(local, tk.remote_paths, get_file_by_path(Data, local.path))
       IN  task' = [task EXCEPT ![t] =
                      [tk EXCEPT !.plans = tk.plans \o item,
                                 !.i = tk.i + 1,
                                 !.pc = IF tk.i = Len(tk.local_files)
                                        THEN "return" ELSE "plan"]]
    /\ UNCHANGED <<files, syncs, disk, clock, nextId, ioFails, storeVars, watchVars, storeCall, cli>>

----------------------------------------------------------------------------
(* service/sync.rs: sync_file *)

(* match result: sync_record? returns create_sync's error; otherwise       *)
(* update_sync_status is called next                                       *)
MatchResult(tk) ==
    IF ~tk.sync_record.ok
    THEN [tk EXCEPT !.pc = "return", !.ret = RepoRet(FALSE, tk.sync_record.err, None)]
    ELSE [tk EXCEPT !.pc = "update_sync_status"]

(* mutant: Skip calls delete_file as Delete does *)
match_action_skip_deletes(tk) ==
    IF tk.action \in {"Delete", "Skip"} THEN [tk EXCEPT !.pc = "delete_file"]
    ELSE MatchResult([tk EXCEPT !.result = RepoOk(None)])

(* match action: Upload, Download and Skip do nothing and succeed; Delete  *)
(* calls delete_file                                                       *)
MatchAction(tk) ==
    IF tk.action = "Delete" THEN [tk EXCEPT !.pc = "delete_file"]
    ELSE MatchResult([tk EXCEPT !.result = RepoOk(None)])

(* create_sync, the section under the mutex *)
SyncFile(t, file_id, device_id, action) ==
    /\ task[t].pc = "idle"
    /\ LET tk == [IdleTask EXCEPT !.op = "sync_file", !.file_id = file_id,
                                  !.device_id = device_id, !.action = action]
           new_sync == [device_id |-> device_id, file_id |-> file_id,
                        sync_status |-> "Syncing"]
           r == create_sync(Data, new_sync, nextId, clock + 1)
       IN  Section(t, r, 1, 1,
                   [tk EXCEPT !.pc = "create_sync_save", !.record = r.ret,
                              !.made = nextId],
                   MatchAction([tk EXCEPT !.sync_record = r.ret]))

(* create_sync: save, then the action *)
SyncFileCreateSyncSave(t) ==
    /\ task[t].pc = "create_sync_save"
    /\ \E outcome \in WriteOutcomes :
        LET s == save(disk, Data, outcome) IN
        /\ Written(s)
        /\ task' = [task EXCEPT ![t] =
                      MatchAction([@ EXCEPT !.sync_record =
                                      IF s.ret.ok THEN task[t].record ELSE s.ret])]
    /\ UNCHANGED <<files, syncs, clock, nextId, storeVars, watchVars, storeCall, cli>>

(* SyncAction::Delete: delete_file, the section under the mutex *)
SyncFileDeleteFile(t) ==
    /\ task[t].pc = "delete_file"
    /\ LET tk == task[t]
           r == delete_file(Data, tk.file_id)
       IN  Section(t, r, 0, 0,
                   [tk EXCEPT !.pc = "delete_file_save"],
                   MatchResult([tk EXCEPT !.result = r.ret]))

SyncFileDeleteFileSave(t) ==
    /\ task[t].pc = "delete_file_save"
    /\ \E outcome \in WriteOutcomes :
        LET s == save(disk, Data, outcome) IN
        /\ Written(s)
        /\ task' = [task EXCEPT ![t] = MatchResult([@ EXCEPT !.result = s.ret])]
    /\ UNCHANGED <<files, syncs, clock, nextId, storeVars, watchVars, storeCall, cli>>

(* let _ = update_sync_status(id, Completed or Failed): its result is      *)
(* dropped, sync_file returns Ok(()) or the action's error                 *)
SyncFileUpdateStatus(t) ==
    /\ task[t].pc = "update_sync_status"
    /\ LET tk == task[t]
           status == IF tk.result.ok THEN "Completed" ELSE "Failed"
           r == update_sync_status(Data, tk.sync_record.rec[1].id, status, clock + 1)
       IN  Section(t, r, 1, 0,
                   [tk EXCEPT !.pc = "update_sync_status_save"],
                   [tk EXCEPT !.pc = "return", !.ret = tk.result])

SyncFileUpdateStatusSave(t) ==
    /\ task[t].pc = "update_sync_status_save"
    /\ \E outcome \in WriteOutcomes :
        LET s == save(disk, Data, outcome) IN
        /\ Written(s)
        /\ task' = [task EXCEPT ![t] = [@ EXCEPT !.pc = "return", !.ret = task[t].result]]
    /\ UNCHANGED <<files, syncs, clock, nextId, storeVars, watchVars, storeCall, cli>>

----------------------------------------------------------------------------
(* watcher/file_watcher.rs.  notify calls the closure of FileWatcher::new   *)
(* on its own thread, once for each event and in the order of the events;   *)
(* the closure translates the event and sends it into the channel; one      *)
(* task receives from the channel and calls the callback.                   *)

(* mpsc::channel::<FileEvent>(100), scaled down *)
QueueCapacity == 2

(* the number of events notify reports in a run *)
MaxEvents == 4

WatchedPaths == {"a"}

FileEvent(kind, path) == [kind |-> kind, path |-> path]

(* Result<notify::Event, notify::Error> *)
NotifyError == [ok |-> FALSE, kind |-> "", paths |-> <<>>]
NotifyEvent(kind, paths) == [ok |-> TRUE, kind |-> kind, paths |-> paths]

EventKinds == {"Create", "Modify", "Remove", "Access"}

NotifyResults ==
    {NotifyError, NotifyEvent("Create", <<>>)}
        \cup {NotifyEvent(kind, <<path>>) : kind \in EventKinds, path \in WatchedPaths}

(* the events notify reports for the rename of "a" to "b":                 *)
(* EventKind::Modify(ModifyKind::Name(mode)), with the old path for        *)
(* RenameMode::From, the new path for To, both paths for Both              *)
RenameEvent(mode, paths) ==
    [ok |-> TRUE, kind |-> "Modify", paths |-> paths, name |-> mode]

RenameResults ==
    {RenameEvent("From", <<"a">>), RenameEvent("To", <<"b">>),
     RenameEvent("Both", <<"a", "b">>), RenameEvent("Any", <<"a">>)}

(* FileEvent::Renamed { from, to } *)
FileEventRenamed(from, to) == [kind |-> "Renamed", from |-> from, to |-> to]

(* mutant: Create events are not translated *)
convert_event_ignores_create(event) ==
    IF event.paths = <<>> THEN None
    ELSE LET path == Head(event.paths) IN
         CASE event.kind = "Modify" -> Some(FileEvent("Modified", path))
           [] event.kind = "Remove" -> Some(FileEvent("Deleted", path))
           [] OTHER -> None

(* convert_event: None when the event has no path or its kind is Any,      *)
(* Access or Other                                                         *)
convert_event(event) ==
    IF event.paths = <<>> THEN None
    ELSE LET path == Head(event.paths) IN
         CASE event.kind = "Create" -> Some(FileEvent("Created", path))
           [] event.kind = "Modify" -> Some(FileEvent("Modified", path))
           [] event.kind = "Remove" -> Some(FileEvent("Deleted", path))
           [] OTHER -> None

(* the closure up to blocking_send: what it sends for one event of notify *)
translate(result) == IF result.ok THEN convert_event(result) ELSE None

(* mutant: try_send, the event is given up when the channel is full *)
blocking_send_gives_up(channel, event) ==
    IF Len(channel) < QueueCapacity
    THEN [sent |-> TRUE, channel |-> Append(channel, event)]
    ELSE [sent |-> TRUE, channel |-> channel]

(* mutant: a channel without capacity *)
blocking_send_unbounded(channel, event) ==
    [sent |-> TRUE, channel |-> Append(channel, event)]

(* tx.blocking_send(file_event): the event goes to the back of the channel *)
(* when the channel holds fewer than its capacity, the thread waits        *)
(* otherwise                                                               *)
blocking_send(channel, event) ==
    IF Len(channel) < QueueCapacity
    THEN [sent |-> TRUE, channel |-> Append(channel, event)]
    ELSE [sent |-> FALSE, channel |-> channel]

(* rx.recv(): the event at the front of the channel *)
recv(channel) == [event |-> Head(channel), channel |-> Tail(channel)]

(* the task WatcherService::start's callback spawns for one event *)
Job(event) == [event |-> event, pc |-> "spawned", file_id |-> 0, ret |-> RepoOk(None)]

(* mutant: a task whose handle_event failed runs it again *)
log_result_retries(job, ret) ==
    IF ret.ok THEN [job EXCEPT !.pc = "done", !.ret = ret]
    ELSE [job EXCEPT !.pc = "spawned", !.ret = ret]

(* if let Err(e) = Self::handle_event(..).await { tracing::error!(..) }:   *)
(* the task ends, with the error logged                                    *)
log_result(job, ret) == [job EXCEPT !.pc = "done", !.ret = ret]

(* notify reports an event that changes no file *)
Notify(result) ==
    /\ Len(raw) < MaxEvents
    /\ raw' = Append(raw, result)
    /\ UNCHANGED <<taken, sending, queue, jobs, storeVars, metaVars, storeCall, cli>>

(* the closure is called with the next event: if let Ok(event), if let     *)
(* Some(file_event), and the thread enters blocking_send                   *)
Translate ==
    /\ sending = None
    /\ taken < Len(raw)
    /\ taken' = taken + 1
    /\ sending' = translate(raw[taken + 1])
    /\ UNCHANGED <<raw, queue, jobs, storeVars, metaVars, storeCall, cli>>

(* blocking_send returns *)
Send ==
    /\ sending # None
    /\ LET r == blocking_send(queue, sending[1]) IN
        /\ r.sent
        /\ queue' = r.channel
        /\ sending' = None
    /\ UNCHANGED <<raw, taken, jobs, storeVars, metaVars, storeCall, cli>>

(* while let Some(event) = rx.recv().await { callback(event) }: the        *)
(* callback of WatcherService::start spawns a task and returns             *)
Recv ==
    /\ queue # <<>>
    /\ LET r == recv(queue) IN
        /\ queue' = r.channel
        /\ jobs' = Append(jobs, Job(r.event))
    /\ UNCHANGED <<raw, taken, sending, storeVars, metaVars, storeCall, cli>>

(* A change of the watched directory, which notify reports.  The files of  *)
(* the watched directory are srcFiles; a file is created empty or with its *)
(* content.                                                                *)
WatchedContents == {<<>>, <<0>>}

(* the number of changes of the watched directory in a run *)
MaxChanges == 3

WriteWatched(path, content) ==
    /\ Len(raw) < MaxChanges
    /\ ~(path \in DOMAIN srcFiles /\ srcFiles[path] = content)
    /\ srcFiles' = Put(srcFiles, path, content)
    /\ raw' = Append(raw, NotifyEvent(IF path \in DOMAIN srcFiles THEN "Modify"
                                                                  ELSE "Create",
                                      <<path>>))
    /\ UNCHANGED <<objects, last, taken, sending, queue, jobs, metaVars, storeCall, cli>>

RemoveWatched(path) ==
    /\ Len(raw) < MaxChanges
    /\ path \in DOMAIN srcFiles
    /\ srcFiles' = [q \in DOMAIN srcFiles \ {path} |-> srcFiles[q]]
    /\ raw' = Append(raw, NotifyEvent("Remove", <<path>>))
    /\ UNCHANGED <<objects, last, taken, sending, queue, jobs, metaVars, storeCall, cli>>

(* handle_event in the spawned task, Created and Modified: path.is_file() *)
HandleIsFile(i) ==
    /\ jobs[i].pc = "spawned"
    /\ jobs[i].event.kind \in {"Created", "Modified"}
    /\ jobs' = [jobs EXCEPT ![i] = IF jobs[i].event.path \in DOMAIN srcFiles
                                   THEN [@ EXCEPT !.pc = "store_file"]
                                   ELSE log_result(@, RepoOk(None))]
    /\ UNCHANGED <<raw, taken, sending, queue, storeVars, metaVars, storeCall, cli>>

(* storage.store_file(&path).await?: an error ends handle_event, and the   *)
(* task logs it                                                            *)
HandleStoreFile(i) ==
    /\ jobs[i].pc = "store_file"
    /\ \E reads \in ReadSplits(IF jobs[i].event.path \in DOMAIN srcFiles
                                THEN Len(srcFiles[jobs[i].event.path]) ELSE 0) :
        LET r == store_file(objects, srcFiles, jobs[i].event.path, reads) IN
        /\ objects' = r.st
        /\ jobs' = [jobs EXCEPT ![i] = log_result(@, IF r.ret.ok THEN RepoOk(None)
                                                        ELSE RepoErr(IoError))]
    /\ UNCHANGED <<srcFiles, last, raw, taken, sending, queue, metaVars, storeCall, cli>>

(* Deleted: if let Ok(record) = repository.get_file_by_path(..) *)
HandleGetFile(i) ==
    /\ jobs[i].pc = "spawned"
    /\ jobs[i].event.kind = "Deleted"
    /\ LET r == get_file_by_path(Data, jobs[i].event.path) IN
        jobs' = [jobs EXCEPT ![i] = IF r.ok
                                    THEN [@ EXCEPT !.pc = "delete_file",
                                                   !.file_id = r.rec[1].id]
                                    ELSE log_result(@, RepoOk(None))]
    /\ UNCHANGED <<raw, taken, sending, queue, storeVars, metaVars, storeCall, cli>>

(* repository.delete_file(record.id).await?: the section under the mutex *)
HandleDeleteFile(i) ==
    /\ jobs[i].pc = "delete_file"
    /\ LET r == delete_file(Data, jobs[i].file_id) IN
        /\ files' = r.data.files
        /\ syncs' = r.data.syncs
        /\ jobs' = [jobs EXCEPT ![i] = IF r.ret.ok THEN [@ EXCEPT !.pc = "save"]
                                       ELSE log_result(@, r.ret)]
    /\ UNCHANGED <<disk, clock, nextId, ioFails, task, raw, taken, sending, queue,
                   storeVars, storeCall, cli>>

(* delete_file: self.save().await? *)
HandleSave(i) ==
    /\ jobs[i].pc = "save"
    /\ \E outcome \in WriteOutcomes :
        LET s == save(disk, Data, outcome) IN
        /\ Written(s)
        /\ jobs' = [jobs EXCEPT ![i] = log_result(@, s.ret)]
    /\ UNCHANGED <<files, syncs, clock, nextId, task, raw, taken, sending, queue,
                   storeVars, storeCall, cli>>

(* handle_event, Renamed { from, to }.  notify's events never translate    *)
(* to Renamed (convert_event), so these steps run only when the callback   *)
(* is called with such an event.                                           *)

(* if let Ok(record) = repository.get_file_by_path(&from) *)
HandleRenamedGetFile(i) ==
    /\ jobs[i].pc = "spawned"
    /\ jobs[i].event.kind = "Renamed"
    /\ LET r == get_file_by_path(Data, jobs[i].event.from) IN
        jobs' = [jobs EXCEPT ![i] = IF r.ok
                                    THEN [@ EXCEPT !.pc = "renamed_delete_file",
                                                   !.file_id = r.rec[1].id]
                                    ELSE [@ EXCEPT !.pc = "renamed_is_file"]]
    /\ UNCHANGED <<raw, taken, sending, queue, storeVars, metaVars, storeCall, cli>>

(* repository.delete_file(record.id).await?: the section under the mutex *)
HandleRenamedDeleteFile(i) ==
    /\ jobs[i].pc = "renamed_delete_file"
    /\ LET r == delete_file(Data, jobs[i].file_id) IN
        /\ files' = r.data.files
        /\ syncs' = r.data.syncs
        /\ jobs' = [jobs EXCEPT ![i] = IF r.ret.ok THEN [@ EXCEPT !.pc = "renamed_save"]
                                       ELSE log_result(@, r.ret)]
    /\ UNCHANGED <<disk, clock, nextId, ioFails, task, raw, taken, sending, queue,
                   storeVars, storeCall, cli>>

(* delete_file: self.save().await?, and on to `if to.is_file()` *)
HandleRenamedSave(i) ==
    /\ jobs[i].pc = "renamed_save"
    /\ \E outcome \in WriteOutcomes :
        LET s == save(disk, Data, outcome) IN
        /\ Written(s)
        /\ jobs' = [jobs EXCEPT ![i] = IF s.ret.ok THEN [@ EXCEPT !.pc = "renamed_is_file"]
                                       ELSE log_result(@, s.ret)]
    /\ UNCHANGED <<files, syncs, clock, nextId, task, raw, taken, sending, queue,
                   storeVars, storeCall, cli>>

(* mutant: the file at `to` is not stored *)
renamed_is_file_skips_store(job, is_file) == log_result(job, RepoOk(None))

(* if to.is_file() { storage.store_file(&to) } *)
renamed_is_file(job, is_file) ==
    IF is_file THEN [job EXCEPT !.pc = "renamed_store_file"]
    ELSE log_result(job, RepoOk(None))

HandleRenamedIsFile(i) ==
    /\ jobs[i].pc = "renamed_is_file"
    /\ jobs' = [jobs EXCEPT ![i] = renamed_is_file(@, jobs[i].event.to \in DOMAIN srcFiles)]
    /\ UNCHANGED <<raw, taken, sending, queue, storeVars, metaVars, storeCall, cli>>

(* storage.store_file(&to).await? *)
HandleRenamedStoreFile(i) ==
    /\ jobs[i].pc = "renamed_store_file"
    /\ \E reads \in ReadSplits(IF jobs[i].event.to \in DOMAIN srcFiles
                                THEN Len(srcFiles[jobs[i].event.to]) ELSE 0) :
        LET r == store_file(objects, srcFiles, jobs[i].event.to, reads) IN
        /\ objects' = r.st
        /\ jobs' = [jobs EXCEPT ![i] = log_result(@, IF r.ret.ok THEN RepoOk(None)
                                                        ELSE RepoErr(IoError))]
    /\ UNCHANGED <<srcFiles, last, raw, taken, sending, queue, metaVars, storeCall, cli>>

(* the events handle_event can be called with, on two paths *)
HandledPaths == {"a", "b"}

HandledEvents ==
    {FileEvent(kind, path) : kind \in {"Created", "Modified", "Deleted"},
                             path \in HandledPaths}
    \cup ({FileEventRenamed(from, to) : from \in HandledPaths, to \in HandledPaths}
          \ {FileEventRenamed(path, path) : path \in HandledPaths})

(* the number of calls of the callback in a run *)
MaxJobs == 2

(* the callback of WatcherService::start is called with an event: it       *)
(* spawns the task that runs handle_event                                  *)
Callback(event) ==
    /\ Len(jobs) < MaxJobs
    /\ jobs' = Append(jobs, Job(event))
    /\ UNCHANGED <<raw, taken, sending, queue, storeVars, metaVars, storeCall, cli>>

----------------------------------------------------------------------------
(* main.rs starts the watcher on storage_path itself, recursively: notify  *)
(* reports the writes to the object directory and to db.json as well as    *)
(* the changes of the user's files.  Here every path under storage_path is *)
(* a [prefix, rest] pair as hash_to_path makes them, the files at the root *)
(* with an empty prefix; srcFiles holds the files at the root, db.json     *)
(* among them with the bytes of the document.                              *)

(* a file of the user, and db.json *)
UserFile == [prefix |-> <<>>, rest |-> <<102>>]
DbFile == [prefix |-> <<>>, rest |-> <<100>>]

(* the bytes of the document at db_path: nothing after a write that failed *)
(* past the truncation, and for a whole document a text that grows with    *)
(* its records                                                             *)
DocumentBytes(doc) ==
    IF doc.kind = "json"
    THEN <<1>> \o [i \in 1 .. Len(doc.files) |-> 0] \o [i \in 1 .. Len(doc.syncs) |-> 1]
    ELSE <<>>

(* the files under storage_path with their contents *)
Tree ==
    [p \in DOMAIN srcFiles \cup DOMAIN objects |->
        IF p \in DOMAIN srcFiles THEN srcFiles[p] ELSE objects[p].data]

(* what notify reports for a file that is created or truncated, and for    *)
(* bytes written to it                                                     *)
OpenEvents(path, existed) ==
    <<NotifyEvent(IF existed THEN "Modify" ELSE "Create", <<path>>)>>

DataEvents(path, content) ==
    IF content = <<>> THEN <<>> ELSE <<NotifyEvent("Modify", <<path>>)>>

(* the number of events of notify a run can hold *)
MaxOwnEvents == 14

(* nothing has happened yet to the directory or the repository *)
Unstirred == raw = <<>> /\ \A t \in Tasks : task[t].pc = "idle"

(* one change from outside: the user's file is written *)
RootWrite(content) ==
    /\ Unstirred
    /\ ~(UserFile \in DOMAIN srcFiles /\ srcFiles[UserFile] = content)
    /\ srcFiles' = Put(srcFiles, UserFile, content)
    /\ raw' = raw \o OpenEvents(UserFile, UserFile \in DOMAIN srcFiles)
                  \o DataEvents(UserFile, content)
    /\ UNCHANGED <<objects, last, taken, sending, queue, jobs, metaVars, storeCall, cli>>

(* one change from outside: the user's file is removed *)
RootRemove ==
    /\ Unstirred
    /\ UserFile \in DOMAIN srcFiles
    /\ srcFiles' = [q \in DOMAIN srcFiles \ {UserFile} |-> srcFiles[q]]
    /\ raw' = Append(raw, NotifyEvent("Remove", <<UserFile>>))
    /\ UNCHANGED <<objects, last, taken, sending, queue, jobs, metaVars, storeCall, cli>>

(* tokio::fs::write(&self.db_path, content) in save, seen by the watcher:  *)
(* the document and its bytes under storage_path, and notify's events      *)
WriteDb(s) ==
    /\ Written(s)
    /\ IF s.disk = disk /\ ~s.ret.ok
       THEN UNCHANGED <<srcFiles, raw>>
       ELSE /\ Len(raw) + 2 <= MaxOwnEvents
            /\ srcFiles' = Put(srcFiles, DbFile, DocumentBytes(s.disk))
            /\ raw' = raw \o OpenEvents(DbFile, DbFile \in DOMAIN srcFiles)
                          \o DataEvents(DbFile, DocumentBytes(s.disk))

(* self.save().await? of an operation a task called *)
SaveWatched(t) ==
    /\ task[t].pc = "save"
    /\ \E outcome \in WriteOutcomes :
        LET s == save(disk, Data, outcome) IN
        /\ WriteDb(s)
        /\ task' = [task EXCEPT ![t] =
                      [@ EXCEPT !.pc = "return",
                                !.ret = IF s.ret.ok THEN task[t].record ELSE s.ret]]
    /\ UNCHANGED <<files, syncs, clock, nextId, objects, last, taken, sending, queue,
                   jobs, storeCall, cli>>

(* the number of spawned tasks that have not ended *)
MaxRunning == 2

Running(js) == SelectSeq(js, LAMBDA job : job.pc # "done")

(* while let Some(event) = rx.recv().await { callback(event) }: the        *)
(* callback spawns a task and drops its JoinHandle, so that nothing is     *)
(* left of a task that has ended                                           *)
RootRecv ==
    /\ queue # <<>>
    /\ Len(Running(jobs)) < MaxRunning
    /\ LET r == recv(queue) IN
        /\ queue' = r.channel
        /\ jobs' = Append(Running(jobs), Job(r.event))
    /\ UNCHANGED <<raw, taken, sending, storeVars, metaVars, storeCall, cli>>

(* handle_event, Created and Modified: path.is_file() *)
RootIsFile(i) ==
    /\ jobs[i].pc = "spawned"
    /\ jobs[i].event.kind \in {"Created", "Modified"}
    /\ jobs' = [jobs EXCEPT ![i] = IF jobs[i].event.path \in DOMAIN Tree
                                   THEN [@ EXCEPT !.pc = "store_file"]
                                   ELSE log_result(@, RepoOk(None))]
    /\ UNCHANGED <<raw, taken, sending, queue, storeVars, metaVars, storeCall, cli>>

(* the task inside store_file with the hash it computed *)
Copying(job, hash) ==
    [event |-> job.event, pc |-> "copy", file_id |-> job.file_id, ret |-> job.ret,
     hash |-> hash]

(* mutant: the source is copied whether or not the object exists *)
skip_copy_never(st, hash) == FALSE

(* store_file: if !target.exists() { copy }, negated *)
skip_copy(st, hash) == file_exists(st, hash)

(* store_file: compute_hash(source) and target.exists() *)
RootStoreHash(i) ==
    /\ jobs[i].pc = "store_file"
    /\ LET path == jobs[i].event.path IN
       \E reads \in ReadSplits(IF path \in DOMAIN Tree THEN Len(Tree[path]) ELSE 0) :
          LET h == compute_hash(Tree, path, reads) IN
          jobs' = [jobs EXCEPT ![i] =
                     IF ~h.ok THEN log_result(@, RepoErr(IoError))
                     ELSE IF skip_copy(objects, h.hash) THEN log_result(@, RepoOk(None))
                     ELSE Copying(@, h.hash)]
    /\ UNCHANGED <<raw, taken, sending, queue, storeVars, metaVars, storeCall, cli>>

(* store_file: create_dir_all(parent), and tokio::fs::copy opens the       *)
(* target, which creates or truncates it                                   *)
RootCopyOpen(i) ==
    /\ jobs[i].pc = "copy"
    /\ LET target == hash_to_path(jobs[i].hash)
           parent == [prefix |-> target.prefix, rest |-> <<>>]
           made == IF \E p \in DOMAIN objects : p.prefix = target.prefix THEN <<>>
                   ELSE <<NotifyEvent("Create", <<parent>>)>>
       IN  IF jobs[i].event.path \notin DOMAIN Tree
           THEN /\ jobs' = [jobs EXCEPT ![i] = log_result(@, RepoErr(IoError))]
                /\ UNCHANGED <<objects, raw>>
           ELSE /\ Len(raw) + 2 <= MaxOwnEvents
                /\ objects' = fs_write(objects, target, <<>>)
                /\ raw' = raw \o made \o OpenEvents(target, target \in DOMAIN objects)
                /\ jobs' = [jobs EXCEPT ![i] = [@ EXCEPT !.pc = "copy_write"]]
    /\ UNCHANGED <<srcFiles, last, taken, sending, queue, metaVars, storeCall, cli>>

(* tokio::fs::copy writes the bytes the source holds *)
RootCopyWrite(i) ==
    /\ jobs[i].pc = "copy_write"
    /\ LET target == hash_to_path(jobs[i].hash)
           content == IF jobs[i].event.path \in DOMAIN Tree
                      THEN Tree[jobs[i].event.path] ELSE <<>>
       IN  /\ Len(raw) + 1 <= MaxOwnEvents
           /\ objects' = [objects EXCEPT ![target].data = content]
           /\ raw' = raw \o DataEvents(target, content)
           /\ jobs' = [jobs EXCEPT ![i] = log_result(@, RepoOk(None))]
    /\ UNCHANGED <<srcFiles, last, taken, sending, queue, metaVars, storeCall, cli>>

(* handle_event, Deleted: delete_file's self.save().await? *)
RootSave(i) ==
    /\ jobs[i].pc = "save"
    /\ \E outcome \in WriteOutcomes :
        LET s == save(disk, Data, outcome) IN
        /\ WriteDb(s)
        /\ jobs' = [jobs EXCEPT ![i] = log_result(@, s.ret)]
    /\ UNCHANGED <<files, syncs, clock, nextId, task, objects, last, taken, sending,
                   queue, storeCall, cli>>

----------------------------------------------------------------------------
(* service/storage.rs, the store calls of concurrent tasks.  A call runs   *)
(* up to its next await in one step: store_content and store_file look     *)
(* whether the target exists, and write it in a later step; the chunk loop *)
(* of store_chunked reads a block and calls store_content on it.           *)

(* a task outside every blob-store call *)
IdleCall ==
    [pc |-> "idle", op |-> "none", source |-> "", content |-> <<>>, hash |-> <<>>,
     blocks |-> <<>>, chunks |-> <<>>, hasher |-> Sha256New, found |-> FALSE,
     ret |-> OkUnit]

(* if !target.exists(): the call goes on to the write, or is past it *)
Checked(c, st, hash) ==
    [c EXCEPT !.hash = hash, !.found = hash_to_path(hash) \in DOMAIN st,
              !.pc = IF hash_to_path(hash) \in DOMAIN st THEN "stored" ELSE "write"]

(* store_content and store_file return (hash, size); store_chunked wraps   *)
(* what store_file returned for a file of one block                        *)
Finish(c, size) ==
    [c EXCEPT !.pc = "return",
              !.ret = IF c.op = "store_chunked"
                      THEN Ret(TRUE, "", c.hash, size, <<c.hash>>, <<>>)
                      ELSE OkHash(c.hash, size)]

(* a call that found its target is past the write *)
Settle(c, size) == IF c.pc = "stored" THEN Finish(c, size) ELSE c

CallStoreContent(t, b) ==
    /\ storeCall[t].pc = "idle"
    /\ storeCall' = [storeCall EXCEPT ![t] =
          Settle(Checked([IdleCall EXCEPT !.op = "store_content", !.content = b],
                         objects, Sha256Hex(b)), Len(b))]
    /\ UNCHANGED <<storeVars, metaVars, watchVars, cli>>

(* store_file up to the copy: compute_hash, then the look at the target *)
CallStoreFile(t, p) ==
    /\ storeCall[t].pc = "idle"
    /\ \E reads \in ReadSplits(SizeOf(p)) :
        LET h == compute_hash(srcFiles, p, reads)
            c == [IdleCall EXCEPT !.op = "store_file", !.source = p]
        IN  storeCall' = [storeCall EXCEPT ![t] =
              IF ~h.ok THEN [c EXCEPT !.pc = "return", !.ret = h]
              ELSE Settle(Checked(c, objects, h.hash), SizeOf(p))]
    /\ UNCHANGED <<storeVars, metaVars, watchVars, cli>>

(* store_chunked: metadata, then store_file for a file of one block, or    *)
(* the file is opened for the chunk loop                                   *)
CallStoreChunked(t, p) ==
    /\ storeCall[t].pc = "idle"
    /\ \E reads \in ReadSplits(SizeOf(p)) :
        LET c == [IdleCall EXCEPT !.op = "store_chunked", !.source = p] IN
        storeCall' = [storeCall EXCEPT ![t] =
          IF p \notin DOMAIN srcFiles THEN [c EXCEPT !.pc = "return", !.ret = Err("Io")]
          ELSE IF SizeOf(p) <= ChunkSize
          THEN Settle(Checked(c, objects, compute_hash(srcFiles, p, reads).hash),
                      SizeOf(p))
          ELSE [c EXCEPT !.pc = "read", !.blocks = Blocks(srcFiles[p], reads)]]
    /\ UNCHANGED <<storeVars, metaVars, watchVars, cli>>

(* the chunk loop: file.read, file_hasher.update, store_content up to its  *)
(* write                                                                   *)
ChunkRead(t) ==
    /\ storeCall[t].pc = "read"
    /\ storeCall[t].blocks # <<>>
    /\ LET c == storeCall[t]
           block == Head(c.blocks)
           next == [c EXCEPT !.blocks = Tail(@), !.content = block,
                             !.hasher = Sha256Update(@, block)]
           checked == Checked(next, objects, Sha256Hex(block))
       IN  storeCall' = [storeCall EXCEPT ![t] =
             IF checked.pc = "stored"
             THEN [checked EXCEPT !.pc = "read", !.chunks = Append(@, checked.hash)]
             ELSE [checked EXCEPT !.pc = "chunk_write"]]
    /\ UNCHANGED <<storeVars, metaVars, watchVars, cli>>

(* tokio::fs::write(&target, content) of store_content, tokio::fs::copy of *)
(* store_file                                                              *)
WriteObject(t) ==
    /\ storeCall[t].pc \in {"write", "chunk_write"}
    /\ LET c == storeCall[t]
           content == IF c.pc = "write" /\ c.source # ""
                      THEN srcFiles[c.source] ELSE c.content
       IN  /\ objects' = fs_write(objects, hash_to_path(c.hash), content)
           /\ storeCall' = [storeCall EXCEPT ![t] =
                 IF c.pc = "chunk_write"
                 THEN [c EXCEPT !.pc = "read", !.chunks = Append(@, c.hash)]
                 ELSE Finish(c, Len(content))]
    /\ UNCHANGED <<srcFiles, last, metaVars, watchVars, cli>>

(* tokio::fs::write and tokio::fs::copy in their two steps: the target is  *)
(* created, or truncated when it exists, and is an empty file until the    *)
(* bytes are written                                                       *)
CreateObject(t) ==
    /\ storeCall[t].pc = "write"
    /\ objects' = fs_write(objects, hash_to_path(storeCall[t].hash), <<>>)
    /\ storeCall' = [storeCall EXCEPT ![t] = [@ EXCEPT !.pc = "write_all"]]
    /\ UNCHANGED <<srcFiles, last, metaVars, watchVars, cli>>

WriteAll(t) ==
    /\ storeCall[t].pc = "write_all"
    /\ LET c == storeCall[t]
           content == IF c.source # "" THEN srcFiles[c.source] ELSE c.content
       IN  /\ objects' = [objects EXCEPT ![hash_to_path(c.hash)].data = content]
           /\ storeCall' = [storeCall EXCEPT ![t] = Finish(c, Len(content))]
    /\ UNCHANGED <<srcFiles, last, metaVars, watchVars, cli>>

(* store_file beside a task that writes the source file: the three reads   *)
(* of the source are three steps.  compute_hash and the look at the target *)
StoreFileHash(t, p) ==
    /\ storeCall[t].pc = "idle"
    /\ \E reads \in ReadSplits(SizeOf(p)) :
        LET h == compute_hash(srcFiles, p, reads)
            c == [IdleCall EXCEPT !.op = "store_file", !.source = p]
        IN  storeCall' = [storeCall EXCEPT ![t] =
              IF ~h.ok THEN [c EXCEPT !.pc = "return", !.ret = h]
              ELSE Checked(c, objects, h.hash)]
    /\ UNCHANGED <<storeVars, metaVars, watchVars, cli>>

(* tokio::fs::copy(source, &target) *)
StoreFileCopy(t) ==
    /\ storeCall[t].pc = "write"
    /\ LET c == storeCall[t] IN
       /\ objects' = fs_write(objects, hash_to_path(c.hash), srcFiles[c.source])
       /\ storeCall' = [storeCall EXCEPT ![t] = [c EXCEPT !.pc = "stored"]]
    /\ UNCHANGED <<srcFiles, last, metaVars, watchVars, cli>>

(* tokio::fs::metadata(source), Ok((hash, metadata.len())) *)
StoreFileMetadata(t) ==
    /\ storeCall[t].pc = "stored"
    /\ storeCall' = [storeCall EXCEPT ![t] = Finish(@, SizeOf(@.source))]
    /\ UNCHANGED <<storeVars, metaVars, watchVars, cli>>

(* what the other task writes into a source file *)
SourceContents == {<<0>>, <<1>>, <<0, 1, 0>>}

(* another task writes the source file *)
WriteSource(p, content) ==
    /\ srcFiles[p] # content
    /\ srcFiles' = [srcFiles EXCEPT ![p] = content]
    /\ UNCHANGED <<objects, last, metaVars, watchVars, storeCall, cli>>

(* after the loop: the manifest is written *)
WriteManifest(t) ==
    /\ storeCall[t].pc = "read"
    /\ storeCall[t].blocks = <<>>
    /\ LET c == storeCall[t]
           file_hash == FormatHex(Sha256Finalize(c.hasher))
           manifest == [file_hash |-> file_hash, file_size |-> SizeOf(c.source),
                        chunks |-> c.chunks]
       IN  /\ objects' = fs_write(objects, hash_to_path(ManifestPrefix \o file_hash),
                                  ManifestToJson(manifest))
           /\ storeCall' = [storeCall EXCEPT ![t] =
                 [c EXCEPT !.pc = "return",
                           !.ret = Ret(TRUE, "", file_hash, SizeOf(c.source),
                                       c.chunks, <<>>)]]
    /\ UNCHANGED <<srcFiles, last, metaVars, watchVars, cli>>

(* the caller takes the result *)
ReturnCall(t) ==
    /\ storeCall[t].pc = "return"
    /\ storeCall' = [storeCall EXCEPT ![t] = IdleCall]
    /\ UNCHANGED <<storeVars, metaVars, watchVars, cli>>

----------------------------------------------------------------------------
(* cli/src/sync.rs: SyncEngine::sync.  local is the directory local_path,  *)
(* remote the files of the server as upload_file and download_file reach   *)
(* them; tried is the record of the loop: the items it took, in order, and *)
(* whether each ended without error.                                       *)

(* the number of items of a plan *)
MaxPlan == 3

CliActions == {"upload", "download", "delete", "skip", "conflict"}

SyncPlanItem(path, action) == [file_id |-> 0, path |-> path, action |-> action]

RECURSIVE SeqsUpTo(_, _)
SeqsUpTo(S, n) ==
    IF n = 0 THEN {<<>>}
    ELSE LET shorter == SeqsUpTo(S, n - 1)
         IN  shorter \cup {Append(q, x) : q \in shorter, x \in S}

(* the items of the plans: every action on "a", and the calls that reach   *)
(* the server on "b" too                                                   *)
CliItems ==
    {SyncPlanItem("a", action) : action \in CliActions}
        \cup {SyncPlanItem("b", action) : action \in {"upload", "download"}}

CliPlans == SeqsUpTo(CliItems, MaxPlan)

SyncReport_default == [uploaded |-> 0, downloaded |-> 0, deleted |-> 0, skipped |-> 0]

(* the body the server answers a download of a path it does not have with *)
NotFoundBody == <<4, 0, 4>>

(* the client before a sync run *)
IdleCli ==
    [pc |-> "idle", dry_run |-> FALSE, plan |-> <<>>, n |-> 0,
     report |-> SyncReport_default, ret |-> OkUnit,
     local |-> << >>, remote |-> << >>, tried |-> <<>>]

(* whether an item has a call that can fail: tokio::fs::read, upload_file, *)
(* download_file, create_dir_all, tokio::fs::write, remove_file            *)
can_fail(c, item) ==
    /\ ~c.dry_run
    /\ \/ item.action = "download"
       \/ item.action \in {"upload", "delete"} /\ item.path \in DOMAIN c.local

(* one turn of `for item in plan` that ends without error *)
run_item(c, item) ==
    CASE item.action = "upload" ->
           IF c.dry_run THEN [c EXCEPT !.report.uploaded = @ + 1]
           ELSE IF item.path \in DOMAIN c.local
           THEN [c EXCEPT !.remote = Put(@, item.path, c.local[item.path]),
                          !.report.uploaded = @ + 1]
           ELSE c
      [] item.action = "download" ->
           IF c.dry_run THEN [c EXCEPT !.report.downloaded = @ + 1]
           ELSE [c EXCEPT !.local = Put(@, item.path,
                                        IF item.path \in DOMAIN c.remote
                                        THEN c.remote[item.path] ELSE NotFoundBody),
                          !.report.downloaded = @ + 1]
      [] item.action = "delete" ->
           IF c.dry_run THEN [c EXCEPT !.report.deleted = @ + 1]
           ELSE [c EXCEPT !.local = [q \in DOMAIN @ \ {item.path} |-> @[q]],
                          !.report.deleted = @ + 1]
      [] item.action = "skip" -> [c EXCEPT !.report.skipped = @ + 1]
      [] OTHER -> c

(* mutant: an error of an item is dropped and the loop goes on *)
question_mark_goes_on(c, failed) ==
    [c EXCEPT !.n = @ + 1, !.tried = Append(@, ~failed)]

(* the `?` on the calls of an item: an error ends sync with that error *)
question_mark(c, failed) ==
    IF failed
    THEN [c EXCEPT !.pc = "return", !.ret = Err("Io"), !.tried = Append(@, FALSE)]
    ELSE [c EXCEPT !.n = @ + 1, !.tried = Append(@, TRUE)]

(* sync up to the loop: scan_local_files, list_versions, create_sync_plan; *)
(* an error of one of them ends sync                                       *)
CliSync(dry_run, plan, failed) ==
    /\ cli.pc = "idle"
    /\ cli' = IF failed THEN [cli EXCEPT !.pc = "return", !.ret = Err("Io")]
              ELSE [cli EXCEPT !.pc = "loop", !.dry_run = dry_run, !.plan = plan,
                               !.n = 1]
    /\ UNCHANGED <<storeVars, metaVars, watchVars, storeCall>>

(* one item of the plan *)
CliItem(failed) ==
    /\ cli.pc = "loop"
    /\ cli.n <= Len(cli.plan)
    /\ failed => can_fail(cli, cli.plan[cli.n])
    /\ cli' = question_mark(IF failed THEN cli ELSE run_item(cli, cli.plan[cli.n]),
                            failed)
    /\ UNCHANGED <<storeVars, metaVars, watchVars, storeCall>>

(* Ok(report) *)
CliDone ==
    /\ cli.pc = "loop"
    /\ cli.n > Len(cli.plan)
    /\ cli' = [cli EXCEPT !.pc = "return", !.ret = OkUnit]
    /\ UNCHANGED <<storeVars, metaVars, watchVars, storeCall>>

----------------------------------------------------------------------------
(* api/routes.rs: upload_file, the handler of PUT /api/files/{path}.  The  *)
(* file tree under storage_path is srcFiles.  The response is the status   *)
(* code and, in ret, the record whose version the FileInfo carries or the  *)
(* error of the message.                                                   *)

(* Config.max_file_size, scaled down *)
max_file_size == 2

(* the bodies sent: two of exactly max_file_size bytes, one of one more *)
UploadBodies == {<<0, 1>>, <<1, 0>>, <<0, 1, 0>>}

(* the path of the requests *)
UploadPaths == {"a"}

FileTooLarge(path) == Error("FileTooLarge", "body", 0, path)

(* mutant: a body of exactly max_file_size bytes is refused as well *)
too_large_or_equal(body) == Len(body) >= max_file_size

(* body.len() as u64 > state.max_file_size *)
too_large(body) == Len(body) > max_file_size

(* match record: Ok gives 200 and the FileInfo, Err gives 500 *)
upload_response(tk, record) ==
    [tk EXCEPT !.pc = "return", !.ret = record,
               !.status = IF record.ok THEN "OK" ELSE "INTERNAL_SERVER_ERROR"]

(* the size check; a body within the limit goes on to the write *)
Upload(t, path, body) ==
    /\ task[t].pc = "idle"
    /\ LET tk == [IdleTask EXCEPT !.op = "upload_file", !.new_file.path = path,
                                  !.body = body]
       IN  task' = [task EXCEPT ![t] =
                      IF too_large(body)
                      THEN [tk EXCEPT !.pc = "return", !.status = "PAYLOAD_TOO_LARGE",
                                      !.ret = RepoErr(FileTooLarge(path))]
                      ELSE [tk EXCEPT !.pc = "write"]]
    /\ UNCHANGED <<files, syncs, disk, clock, nextId, ioFails, storeVars, watchVars,
                   storeCall, cli>>

(* create_dir_all(parent); tokio::fs::write(&file_path, &body) *)
UploadWrite(t) ==
    /\ task[t].pc = "write"
    /\ srcFiles' = Put(srcFiles, task[t].new_file.path, task[t].body)
    /\ task' = [task EXCEPT ![t] = [@ EXCEPT !.pc = "store_file"]]
    /\ UNCHANGED <<objects, last, files, syncs, disk, clock, nextId, ioFails, watchVars,
                   storeCall, cli>>

(* state.storage.store_file(&file_path) *)
UploadStoreFile(t) ==
    /\ task[t].pc = "store_file"
    /\ LET path == task[t].new_file.path IN
       \E reads \in ReadSplits(Len(srcFiles[path])) :
          LET r == store_file(objects, srcFiles, path, reads) IN
          /\ objects' = r.st
          /\ task' = [task EXCEPT ![t] =
                        IF r.ret.ok
                        THEN [@ EXCEPT !.pc = "get_file_by_path",
                                       !.new_file.hash = Some(r.ret.hash),
                                       !.new_file.size = r.ret.size]
                        ELSE upload_response(@, RepoErr(IoError))]
    /\ UNCHANGED <<srcFiles, last, files, syncs, disk, clock, nextId, ioFails, watchVars,
                   storeCall, cli>>

(* state.repository.get_file_by_path(&path): Ok leads to update_file of    *)
(* the record found, Err to create_file                                    *)
UploadGetFile(t) ==
    /\ task[t].pc = "get_file_by_path"
    /\ LET existing == get_file_by_path(Data, task[t].new_file.path)
       IN  task' = [task EXCEPT ![t] =
                      IF existing.ok
                      THEN [@ EXCEPT !.pc = "update_file", !.file_id = existing.rec[1].id]
                      ELSE [@ EXCEPT !.pc = "create_file"]]
    /\ UNCHANGED <<files, syncs, disk, clock, nextId, ioFails, storeVars, watchVars,
                   storeCall, cli>>

(* update_file(existing.id, Some(hash), size), the section under the mutex *)
UploadUpdateFile(t) ==
    /\ task[t].pc = "update_file"
    /\ LET tk == task[t]
           r == update_file(Data, tk.file_id, tk.new_file.hash, tk.new_file.size,
                            clock + 1)
       IN  Section(t, r, 1, 0,
                   [tk EXCEPT !.pc = "upload_save", !.record = r.ret],
                   upload_response(tk, r.ret))

(* create_file(NewFileRecord { path, hash: Some(hash), size }) *)
UploadCreateFile(t) ==
    /\ task[t].pc = "create_file"
    /\ LET tk == task[t]
           r == create_file(Data, tk.new_file, nextId, clock + 1)
       IN  Section(t, r, 1, 1,
                   [tk EXCEPT !.pc = "upload_save", !.record = r.ret],
                   upload_response(tk, r.ret))

(* the save of update_file or create_file, then the response *)
UploadSave(t) ==
    /\ task[t].pc = "upload_save"
    /\ \E outcome \in WriteOutcomes :
        LET s == save(disk, Data, outcome) IN
        /\ Written(s)
        /\ task' = [task EXCEPT ![t] =
                      upload_response(@, IF s.ret.ok THEN task[t].record ELSE s.ret)]
    /\ UNCHANGED <<files, syncs, clock, nextId, storeVars, watchVars, storeCall, cli>>

----------------------------------------------------------------------------
(* service/version.rs: update_version and delete_version.  The file the    *)
(* path names is one of srcFiles; the FileRecord carries the path.         *)

(* mutant: the record found is updated whatever its hash is *)
same_content_updates_anyway(record, hash) == FALSE

(* record.hash.as_deref() == Some(hash.as_str()) *)
same_content(record, hash) == record.hash = Some(hash)

(* let existing = repository.get_file_by_path(..).await.ok() *)
UpdateVersion(t, path) ==
    /\ task[t].pc = "idle"
    /\ task' = [task EXCEPT ![t] =
                  [IdleTask EXCEPT !.op = "update_version", !.new_file.path = path,
                                   !.seen = get_file_by_path(Data, path).rec,
                                   !.pc = "version_store_file"]]
    /\ UNCHANGED <<files, syncs, disk, clock, nextId, ioFails, storeVars, watchVars,
                   storeCall, cli>>

(* storage.store_file(path).await?, then match existing: the record found  *)
(* is returned when it has the hash of the file, and updated otherwise;    *)
(* without a record one is created                                         *)
VersionStoreFile(t) ==
    /\ task[t].pc = "version_store_file"
    /\ LET tk == task[t]
           path == tk.new_file.path
       IN  \E reads \in ReadSplits(SizeOf(path)) :
              LET r == store_file(objects, srcFiles, path, reads)
                  stored == [tk EXCEPT !.new_file.hash = Some(r.ret.hash),
                                       !.new_file.size = r.ret.size]
              IN  /\ objects' = r.st
                  /\ task' = [task EXCEPT ![t] =
                        IF ~r.ret.ok
                        THEN [tk EXCEPT !.pc = "return", !.ret = RepoErr(IoError)]
                        ELSE IF tk.seen = None
                        THEN [stored EXCEPT !.pc = "version_create_file"]
                        ELSE IF same_content(tk.seen[1], r.ret.hash)
                        THEN [stored EXCEPT !.pc = "return", !.ret = RepoOk(tk.seen)]
                        ELSE [stored EXCEPT !.pc = "version_update_file",
                                            !.file_id = tk.seen[1].id]]
    /\ UNCHANGED <<srcFiles, last, files, syncs, disk, clock, nextId, ioFails, watchVars,
                   storeCall, cli>>

(* repository.update_file(record.id, Some(hash), size): the section, then  *)
(* save                                                                    *)
VersionUpdateFile(t) ==
    /\ task[t].pc = "version_update_file"
    /\ LET tk == task[t]
           r == update_file(Data, tk.file_id, tk.new_file.hash, tk.new_file.size,
                            clock + 1)
       IN  Section(t, r, 1, 0,
                   [tk EXCEPT !.pc = "save", !.record = r.ret],
                   [tk EXCEPT !.pc = "return", !.ret = r.ret])

(* repository.create_file(new_file): the section, then save *)
VersionCreateFile(t) ==
    /\ task[t].pc = "version_create_file"
    /\ LET tk == task[t]
           r == create_file(Data, tk.new_file, nextId, clock + 1)
       IN  Section(t, r, 1, 1,
                   [tk EXCEPT !.pc = "save", !.record = r.ret],
                   [tk EXCEPT !.pc = "return", !.ret = r.ret])

(* delete_version: let record = repository.get_file_by_path(path).await? *)
DeleteVersion(t, path) ==
    /\ task[t].pc = "idle"
    /\ LET tk == [IdleTask EXCEPT !.op = "delete_version", !.new_file.path = path]
           r == get_file_by_path(Data, path)
       IN  task' = [task EXCEPT ![t] =
                      IF r.ok
                      THEN [tk EXCEPT !.pc = "version_delete_file", !.seen = r.rec,
                                      !.file_id = r.rec[1].id]
                      ELSE [tk EXCEPT !.pc = "return", !.ret = r]]
    /\ UNCHANGED <<files, syncs, disk, clock, nextId, ioFails, storeVars, watchVars,
                   storeCall, cli>>

(* mutant: the object at the record's hash is removed with the record *)
version_delete_file_removes_object(t) ==
    /\ task[t].pc = "version_delete_file"
    /\ LET tk == task[t]
           r == delete_file(Data, tk.file_id)
           hash == IF tk.seen[1].hash = None THEN <<>> ELSE tk.seen[1].hash[1]
       IN  /\ files' = r.data.files
           /\ syncs' = r.data.syncs
           /\ objects' = storage_delete_file(objects, hash).st
           /\ task' = [task EXCEPT ![t] =
                         IF r.ret.ok THEN [tk EXCEPT !.pc = "save", !.record = r.ret]
                         ELSE [tk EXCEPT !.pc = "return", !.ret = r.ret]]
    /\ UNCHANGED <<srcFiles, last, disk, clock, nextId, ioFails, watchVars, storeCall, cli>>

(* repository.delete_file(record.id): the section, then save *)
VersionDeleteFile(t) ==
    /\ task[t].pc = "version_delete_file"
    /\ LET tk == task[t]
           r == delete_file(Data, tk.file_id)
       IN  Section(t, r, 0, 0,
                   [tk EXCEPT !.pc = "save", !.record = r.ret],
                   [tk EXCEPT !.pc = "return", !.ret = r.ret])

----------------------------------------------------------------------------
(* Specifications *)

(* The source files exist before the store is used.  The two names and the *)
(* two byte values are interchangeable: file1 is the longer file and       *)
(* begins with byte 0.                                                     *)
InitStore ==
    /\ objects = << >>
    /\ srcFiles \in {f \in [SrcPaths -> Contents] :
                        /\ Len(f["file1"]) >= Len(f["file2"])
                        /\ f["file1"] = <<>> \/ f["file1"][1] = 0}
    /\ last = NoCall

(* Repository::new on a path where no document exists, no call running *)
InitMeta ==
    /\ files = Database_default.files
    /\ syncs = Database_default.syncs
    /\ disk = NoDocument
    /\ clock = 0
    /\ nextId = 1
    /\ ioFails = 0
    /\ task = [t \in Tasks |-> IdleTask]

(* the blob store unused *)
InitIdleStore ==
    /\ objects = << >>
    /\ srcFiles = [p \in SrcPaths |-> <<>>]
    /\ last = NoCall

(* no watcher runs, no task is inside a blob-store call, the client is idle *)
InitNoWatcher ==
    /\ raw = <<>>
    /\ taken = 0
    /\ sending = None
    /\ queue = <<>>
    /\ jobs = <<>>

InitElsewhere == InitNoWatcher /\ storeCall = [t \in Tasks |-> IdleCall] /\ cli = IdleCli

Init == InitStore /\ InitMeta /\ InitElsewhere

Next ==
    \/ \E b \in HandContents : StoreContent(b)
    \/ \E p \in SrcPaths \cup {NoFile} : StoreFile(p)
    \/ \E p \in SrcPaths \cup {NoFile} : StoreChunked(p)
    \/ \E h \in HandHashes : RetrieveFile(h)
    \/ \E h \in HandHashes : RetrieveChunked(h)

Spec == Init /\ [][Next]_vars

(* The metadata repository used by two tasks *)
InitRepo == InitIdleStore /\ InitMeta /\ InitElsewhere

NextRepo ==
    \/ \E t \in Tasks, new_file \in NewFileRecords : CreateFile(t, new_file)
    \/ \E t \in Tasks, id \in KnownIds, d \in FileData : UpdateFile(t, id, d)
    \/ \E t \in Tasks, id \in KnownIds : DeleteFile(t, id)
    \/ \E t \in Tasks : Save(t)
    \/ \E t \in Tasks : Return(t)

SpecRepo == InitRepo /\ [][NextRepo]_vars

(* create_sync_plan by one task while another task uses the repository *)
Planner == "t1"
Mutator == "t2"

NextPlan ==
    \/ \E new_file \in NewFileRecords : CreateFile(Mutator, new_file)
    \/ \E id \in KnownIds, d \in FileData : UpdateFile(Mutator, id, d)
    \/ \E id \in KnownIds : DeleteFile(Mutator, id)
    \/ Save(Mutator)
    \/ \E t \in Tasks : Return(t)
    \/ \E local_files \in LocalLists : CreateSyncPlan(Planner, local_files)
    \/ PlanStep(Planner)

(* the writes of the document all succeed in these runs *)
InitPlan ==
    /\ InitIdleStore
    /\ InitElsewhere
    /\ files = Database_default.files
    /\ syncs = Database_default.syncs
    /\ disk = NoDocument
    /\ clock = 0
    /\ nextId = 1
    /\ ioFails = MaxIoFail
    /\ task = [t \in Tasks |-> IdleTask]

SpecPlan == InitPlan /\ [][NextPlan]_vars

(* sync_file by one task while another task uses the repository.  The     *)
(* repository is opened on no document, or on the document of an earlier   *)
(* run that holds one file.                                                *)
EarlierDocuments ==
    {NoDocument,
     to_string_pretty([files |-> <<FileRecord_new([path |-> "a", hash |-> None,
                                                   size |-> 0], 1, 0)>>,
                       syncs |-> <<>>])}

InitSync ==
    /\ InitIdleStore
    /\ InitElsewhere
    /\ disk \in EarlierDocuments
    /\ files = Repository_new(disk).files
    /\ syncs = Repository_new(disk).syncs
    /\ clock = 0
    /\ nextId = Len(files) + 1
    /\ ioFails = 0
    /\ task = [t \in Tasks |-> IdleTask]

Syncer == "t1"

NextSync ==
    \/ \E new_file \in NewFileRecords : CreateFile(Mutator, new_file)
    \/ \E id \in KnownIds : DeleteFile(Mutator, id)
    \/ Save(Mutator)
    \/ \E t \in Tasks : Return(t)
    \/ \E id \in KnownIds, device_id \in DeviceIds, action \in SyncActions :
          SyncFile(Syncer, id, device_id, action)
    \/ SyncFileCreateSyncSave(Syncer)
    \/ SyncFileDeleteFile(Syncer)
    \/ SyncFileDeleteFileSave(Syncer)
    \/ SyncFileUpdateStatus(Syncer)
    \/ SyncFileUpdateStatusSave(Syncer)

SpecSync == InitSync /\ [][NextSync]_vars

(* sync_file by one task while another task calls the repository's         *)
(* operations on sync records.  The repository is opened on the document   *)
(* of an earlier run: one file and one sync record of it, which that run   *)
(* left Syncing or Completed.                                              *)
EarlierSync(status) ==
    LET file == FileRecord_new([path |-> "a", hash |-> None, size |-> 0], 1, 0)
        made == create_sync([files |-> <<file>>, syncs |-> <<>>],
                            [device_id |-> 1, file_id |-> 1, sync_status |-> "Syncing"],
                            2, 0).data
    IN  IF status = "Syncing" THEN made
        ELSE update_sync_status(made, 2, status, 0).data

EarlierSyncDocuments ==
    {to_string_pretty(EarlierSync(status)) : status \in {"Syncing", "Completed"}}

InitStatus ==
    /\ InitIdleStore
    /\ InitElsewhere
    /\ disk \in EarlierSyncDocuments
    /\ files = Repository_new(disk).files
    /\ syncs = Repository_new(disk).syncs
    /\ clock = 0
    /\ nextId = Len(files) + Len(syncs) + 1
    /\ ioFails = 0
    /\ task = [t \in Tasks |-> IdleTask]

NextStatus ==
    \/ \E id \in KnownIds, device_id \in DeviceIds, status \in SyncStatus :
          CreateSync(Mutator, id, device_id, status)
    \/ \E id \in KnownIds, status \in SyncStatus : UpdateSyncStatus(Mutator, id, status)
    \/ Save(Mutator)
    \/ \E t \in Tasks : Return(t)
    \/ \E id \in KnownIds, device_id \in DeviceIds, action \in SyncActions :
          SyncFile(Syncer, id, device_id, action)
    \/ SyncFileCreateSyncSave(Syncer)
    \/ SyncFileDeleteFile(Syncer)
    \/ SyncFileDeleteFileSave(Syncer)
    \/ SyncFileUpdateStatus(Syncer)
    \/ SyncFileUpdateStatusSave(Syncer)

SpecStatus == InitStatus /\ [][NextStatus]_vars

(* create_sync by one task while another task creates and deletes files,   *)
(* both listing the sync records of a file, on a repository opened on the  *)
(* document of an earlier run                                              *)
InitCascade ==
    /\ InitIdleStore
    /\ InitElsewhere
    /\ disk \in EarlierDocuments \cup EarlierSyncDocuments
    /\ files = Repository_new(disk).files
    /\ syncs = Repository_new(disk).syncs
    /\ clock = 0
    /\ nextId = Len(files) + Len(syncs) + 1
    /\ ioFails = 0
    /\ task = [t \in Tasks |-> IdleTask]

NextCascade ==
    \/ \E new_file \in NewFileRecords : CreateFile(Mutator, new_file)
    \/ \E id \in KnownIds : DeleteFile(Mutator, id)
    \/ \E id \in KnownIds, device_id \in DeviceIds :
          CreateSync(Syncer, id, device_id, "Pending")
    \/ \E t \in Tasks, id \in KnownIds : ListSyncsByFile(t, id)
    \/ \E t \in Tasks : Save(t)
    \/ \E t \in Tasks : Return(t)

SpecCascade == InitCascade /\ [][NextCascade]_vars

(* store_content, retrieve_file and delete_file on the hashes of the       *)
(* caller's contents, stored or not, one call after the other              *)
ContentHashes == {Sha256Hex(b) : b \in HandContents}

NextObjects ==
    \/ \E b \in HandContents : StoreContent(b)
    \/ \E h \in ContentHashes : RetrieveFile(h)
    \/ \E h \in ContentHashes : DeleteObject(h)

SpecObjects == Init /\ [][NextObjects]_vars

(* store_content, store_file and store_chunked called by two tasks at     *)
(* once.  file1 has two blocks, the second of them is the content of file2 *)
InitCalls ==
    /\ objects = << >>
    /\ srcFiles = [p \in SrcPaths |-> IF p = "file1" THEN <<0, 1, 0>> ELSE <<0>>]
    /\ last = NoCall
    /\ InitMeta
    /\ InitElsewhere

NextCalls ==
    \/ \E t \in Tasks, b \in HandContents : CallStoreContent(t, b)
    \/ \E t \in Tasks, p \in SrcPaths \cup {NoFile} : CallStoreFile(t, p)
    \/ \E t \in Tasks, p \in SrcPaths \cup {NoFile} : CallStoreChunked(t, p)
    \/ \E t \in Tasks : ChunkRead(t)
    \/ \E t \in Tasks : WriteObject(t)
    \/ \E t \in Tasks : WriteManifest(t)
    \/ \E t \in Tasks : ReturnCall(t)

SpecCalls == InitCalls /\ [][NextCalls]_vars

(* one run of the client's sync: a file "a" in local_path, a file "b" on   *)
(* the server                                                              *)
CliStart ==
    [IdleCli EXCEPT !.local = Put(<< >>, "a", <<0>>), !.remote = Put(<< >>, "b", <<1>>)]

InitCli ==
    /\ InitIdleStore
    /\ InitMeta
    /\ InitNoWatcher
    /\ storeCall = [t \in Tasks |-> IdleCall]
    /\ cli = CliStart

NextCli ==
    \/ \E dry_run \in BOOLEAN, plan \in CliPlans, failed \in BOOLEAN :
          CliSync(dry_run, plan, failed)
    \/ \E failed \in BOOLEAN : CliItem(failed)
    \/ CliDone

SpecCli == InitCli /\ [][NextCli]_vars

(* FileWatcher: notify's thread, the channel and the consumer task *)
InitQueue == InitIdleStore /\ InitMeta /\ InitElsewhere

NextQueue ==
    \/ \E result \in NotifyResults : Notify(result)
    \/ Translate
    \/ Send
    \/ Recv

SpecQueue == InitQueue /\ [][NextQueue]_vars

(* WatcherService: the watcher with the callback that spawns handle_event, *)
(* started on an empty directory beside a repository that holds the        *)
(* record of a file with the watched path or none                          *)
InitWatch ==
    /\ objects = << >>
    /\ srcFiles = << >>
    /\ last = NoCall
    /\ disk \in EarlierDocuments
    /\ files = Repository_new(disk).files
    /\ syncs = Repository_new(disk).syncs
    /\ clock = 0
    /\ nextId = Len(files) + 1
    /\ ioFails = 0
    /\ task = [t \in Tasks |-> IdleTask]
    /\ InitElsewhere

Handle(i) ==
    \/ HandleIsFile(i)
    \/ HandleStoreFile(i)
    \/ HandleGetFile(i)
    \/ HandleDeleteFile(i)
    \/ HandleSave(i)

NextWatch ==
    \/ \E path \in WatchedPaths, content \in WatchedContents : WriteWatched(path, content)
    \/ \E path \in WatchedPaths : RemoveWatched(path)
    \/ Translate
    \/ Send
    \/ Recv
    \/ \E i \in 1 .. Len(jobs) : Handle(i)

SpecWatch == InitWatch /\ [][NextWatch]_vars

(* notify's thread, the consumer task and the spawned tasks are scheduled *)
FairWatch ==
    /\ SpecWatch
    /\ WF_vars(Translate) /\ WF_vars(Send) /\ WF_vars(Recv)
    /\ WF_vars(\E i \in 1 .. Len(jobs) : Handle(i))

(* the consumer task is scheduled, and so is a thread in blocking_send that *)
(* the channel has room for                                                *)
FairQueue == SpecQueue /\ WF_vars(Send) /\ WF_vars(Recv)

(* PUT /api/files/{path} handled by two tasks at once, on a server with an  *)
(* empty file tree whose repository holds the record of "a" or none        *)
NextUpload ==
    \/ \E t \in Tasks, path \in UploadPaths, body \in UploadBodies : Upload(t, path, body)
    \/ \E t \in Tasks : UploadWrite(t)
    \/ \E t \in Tasks : UploadStoreFile(t)
    \/ \E t \in Tasks : UploadGetFile(t)
    \/ \E t \in Tasks : UploadUpdateFile(t)
    \/ \E t \in Tasks : UploadCreateFile(t)
    \/ \E t \in Tasks : UploadSave(t)
    \/ \E t \in Tasks : Return(t)

SpecUpload == InitWatch /\ [][NextUpload]_vars

(* The server is started on what an earlier run left at db_path: nothing,  *)
(* a document, a file a failed write emptied, or bytes that are not UTF-8; *)
(* one task then uses the repository                                       *)
PersistedDocuments == EarlierDocuments \cup EarlierSyncDocuments \cup {Truncated, NotUtf8}

InitOpen ==
    /\ InitIdleStore
    /\ InitElsewhere
    /\ disk \in PersistedDocuments
    /\ files = <<>>
    /\ syncs = <<>>
    /\ clock = 0
    /\ nextId = 1
    /\ ioFails = 0
    /\ task = [t \in Tasks |-> IF t = Mutator
                               THEN [IdleTask EXCEPT !.pc = "new", !.op = "Repository_new"]
                               ELSE IdleTask]

NextOpen ==
    \/ OpenRepository(Mutator)
    \/ \E new_file \in NewFileRecords : CreateFile(Mutator, new_file)
    \/ \E id \in KnownIds, d \in FileData : UpdateFile(Mutator, id, d)
    \/ \E id \in KnownIds : DeleteFile(Mutator, id)
    \/ Save(Mutator)
    \/ Return(Mutator)

SpecOpen == InitOpen /\ [][NextOpen]_vars

(* FileWatcher while a file of the watched directory is renamed *)
NextRename ==
    \/ \E result \in RenameResults : Notify(result)
    \/ Translate
    \/ Send
    \/ Recv

SpecRename == InitQueue /\ [][NextRename]_vars

(* store_content and store_file called by two tasks, the writes in their   *)
(* two steps, while a third caller retrieves                               *)
NextWrites ==
    \/ \E t \in Tasks, b \in HandContents : CallStoreContent(t, b)
    \/ \E t \in Tasks, p \in SrcPaths : CallStoreFile(t, p)
    \/ \E t \in Tasks : CreateObject(t)
    \/ \E t \in Tasks : WriteAll(t)
    \/ \E t \in Tasks : ReturnCall(t)
    \/ \E h \in ContentHashes : RetrieveFile(h)

SpecWrites == InitCalls /\ [][NextWrites]_vars

(* store_file called by two tasks on a source file that is written *)
NextSource ==
    \/ \E t \in Tasks : StoreFileHash(t, "file1")
    \/ \E t \in Tasks : StoreFileCopy(t)
    \/ \E t \in Tasks : StoreFileMetadata(t)
    \/ \E t \in Tasks : ReturnCall(t)
    \/ \E content \in SourceContents : WriteSource("file1", content)

SpecSource == InitCalls /\ [][NextSource]_vars

(* update_file called by two tasks at once on the records of an earlier run *)
NextUpdates ==
    \/ \E t \in Tasks, id \in KnownIds, d \in FileData : UpdateFile(t, id, d)
    \/ \E t \in Tasks : Save(t)
    \/ \E t \in Tasks : Return(t)

SpecUpdates == InitSync /\ [][NextUpdates]_vars

(* The mutating operations called by two tasks, with the mutex *)
NextLock ==
    \/ \E t \in Tasks : \E c \in RepoCalls(t) : CallRepo(t, c)
    \/ \E t \in Tasks : AcquireMutex(t)
    \/ \E t \in Tasks : RunSection(t)
    \/ \E t \in Tasks : WriteDocument(t)
    \/ \E t \in Tasks : Return(t)

(* the repository was opened on the document of an earlier run with the    *)
(* record of "a"                                                           *)
InitLock == InitSync /\ disk # NoDocument

SpecLock == InitLock /\ [][NextLock]_vars

(* every task is scheduled, and tokio's Mutex is fair: a task waiting in   *)
(* lock() gets the mutex when it is free again and again                   *)
FairLock ==
    /\ SpecLock
    /\ \A t \in Tasks :
          /\ SF_vars(AcquireMutex(t))
          /\ WF_vars(RunSection(t))
          /\ WF_vars(WriteDocument(t))

(* handle_event called with any event, by tasks that run at once, on a     *)
(* repository opened on the document of an earlier run and a watched       *)
(* directory that holds some of the files                                  *)
WatchedTrees ==
    {tree \in UNION {[S -> WatchedContents] : S \in SUBSET HandledPaths} :
        \A p \in DOMAIN tree : p = "a" \/ tree[p] = <<0>>}

InitHandle ==
    /\ objects = << >>
    /\ srcFiles \in WatchedTrees
    /\ last = NoCall
    /\ disk \in EarlierDocuments \cup EarlierSyncDocuments
    /\ files = Repository_new(disk).files
    /\ syncs = Repository_new(disk).syncs
    /\ clock = 0
    /\ nextId = Len(files) + Len(syncs) + 1
    /\ ioFails = 0
    /\ task = [t \in Tasks |-> IdleTask]
    /\ InitElsewhere

HandleRenamed(i) ==
    \/ HandleRenamedGetFile(i)
    \/ HandleRenamedDeleteFile(i)
    \/ HandleRenamedSave(i)
    \/ HandleRenamedIsFile(i)
    \/ HandleRenamedStoreFile(i)

NextHandle ==
    \/ \E event \in HandledEvents : Callback(event)
    \/ \E i \in 1 .. Len(jobs) : Handle(i)
    \/ \E i \in 1 .. Len(jobs) : HandleRenamed(i)

SpecHandle == InitHandle /\ [][NextHandle]_vars

(* store_chunked, retrieve_chunked and delete_file on the caller's files   *)
(* and on the hashes of their contents, stored or not, one call after the  *)
(* other                                                                   *)
NextChunks ==
    \/ \E p \in SrcPaths \cup {NoFile} : StoreChunked(p)
    \/ \E h \in ContentHashes \cup HandHashes : RetrieveChunked(h)
    \/ \E h \in HandHashes : DeleteObject(h)

SpecChunks == Init /\ [][NextChunks]_vars

(* FileRecords are deleted through the repository, sync_file, the version  *)
(* service and the watcher's handler of one Deleted event, on a server     *)
(* whose store holds the manifest and the chunks an earlier store_chunked  *)
(* of the file left, with or without the FileRecord of the file.  The     *)
(* Deleter makes one call, a sync_file with Skip among the calls it can    *)
(* make.                                                                   *)
Deleter == "t2"
Versioner == "t1"

VersionedPath == "file1"

InitDelete ==
    /\ srcFiles = [p \in SrcPaths |-> IF p = "file1" THEN <<0, 1, 0>> ELSE <<0>>]
    /\ LET r == store_chunked(<< >>, srcFiles, VersionedPath, <<ChunkSize, 1>>)
           record == FileRecord_new([path |-> VersionedPath, hash |-> Some(r.ret.hash),
                                     size |-> r.ret.size], 1, 0)
       IN  /\ objects = r.st
           /\ files \in {<<>>, <<record>>}
    /\ syncs = <<>>
    /\ disk = to_string_pretty(Data)
    /\ last = NoCall
    /\ clock = 0
    /\ nextId = Len(files) + 1
    /\ ioFails = 0
    /\ task = [t \in Tasks |-> IdleTask]
    /\ InitElsewhere

NextDelete ==
    \/ UpdateVersion(Versioner, VersionedPath)
    \/ VersionStoreFile(Versioner)
    \/ VersionCreateFile(Versioner)
    \/ DeleteVersion(Versioner, VersionedPath)
    \/ VersionDeleteFile(Versioner)
    \/ \E id \in KnownIds : DeleteFile(Deleter, id)
    \/ \E id \in KnownIds, device_id \in DeviceIds, action \in {"Delete", "Skip"} :
          SyncFile(Deleter, id, device_id, action)
    \/ SyncFileCreateSyncSave(Deleter)
    \/ SyncFileDeleteFile(Deleter)
    \/ SyncFileDeleteFileSave(Deleter)
    \/ SyncFileUpdateStatus(Deleter)
    \/ SyncFileUpdateStatusSave(Deleter)
    \/ \E t \in Tasks : Save(t)
    \/ Return(Versioner)
    \/ jobs = <<>> /\ Callback(FileEvent("Deleted", VersionedPath))
    \/ \E i \in 1 .. Len(jobs) : HandleGetFile(i)
    \/ \E i \in 1 .. Len(jobs) : HandleDeleteFile(i)
    \/ \E i \in 1 .. Len(jobs) : HandleSave(i)

SpecDelete == InitDelete /\ [][NextDelete]_vars

(* update_version called by two tasks on a file that is written in between *)
NextVersion ==
    \/ \E t \in Tasks : UpdateVersion(t, VersionedPath)
    \/ \E t \in Tasks : VersionStoreFile(t)
    \/ \E t \in Tasks : VersionUpdateFile(t)
    \/ \E t \in Tasks : VersionCreateFile(t)
    \/ \E t \in Tasks : Save(t)
    \/ \E t \in Tasks : Return(t)
    \/ \E content \in SourceContents : WriteSource(VersionedPath, content)

SpecVersion == InitCalls /\ [][NextVersion]_vars

(* The watcher on storage_path, after one change: the user's file is       *)
(* written or removed, or a task creates or deletes a FileRecord.  The     *)
(* repository holds the record of the user's file and db.json exists; the  *)
(* user's file is there or not, stored already or not.                     *)
UserRecord == FileRecord_new([path |-> UserFile, hash |-> None, size |-> 0], 1, 0)

InitRoot ==
    /\ files = <<UserRecord>>
    /\ syncs = <<>>
    /\ disk = to_string_pretty(Data)
    /\ \E user \in {<<>>, <<<<0>>>>} :
          /\ srcFiles = IF user = <<>> THEN [p \in {DbFile} |-> DocumentBytes(disk)]
                        ELSE [p \in {DbFile, UserFile} |->
                                 IF p = DbFile THEN DocumentBytes(disk) ELSE user[1]]
          /\ objects \in {<< >>} \cup {store_content(<< >>, user[k]).st : k \in 1 .. Len(user)}
    /\ last = NoCall
    /\ clock = 0
    /\ nextId = 2
    /\ ioFails = 0
    /\ task = [t \in Tasks |-> IdleTask]
    /\ InitElsewhere

OtherRecord == [path |-> DbFile, hash |-> None, size |-> 0]

NextRoot ==
    \/ \E content \in WatchedContents : RootWrite(content)
    \/ RootRemove
    \/ Unstirred /\ CreateFile(Mutator, OtherRecord)
    \/ \E id \in KnownIds : Unstirred /\ DeleteFile(Mutator, id)
    \/ SaveWatched(Mutator)
    \/ Translate
    \/ Send
    \/ RootRecv
    \/ \E i \in 1 .. Len(jobs) : RootIsFile(i)
    \/ \E i \in 1 .. Len(jobs) : RootStoreHash(i)
    \/ \E i \in 1 .. Len(jobs) : RootCopyOpen(i)
    \/ \E i \in 1 .. Len(jobs) : RootCopyWrite(i)
    \/ \E i \in 1 .. Len(jobs) : HandleGetFile(i)
    \/ \E i \in 1 .. Len(jobs) : HandleDeleteFile(i)
    \/ \E i \in 1 .. Len(jobs) : RootSave(i)

SpecRoot == InitRoot /\ [][NextRoot]_vars

(* a step of notify's thread, of the consumer task, of a spawned task or   *)
(* of the task that called the repository                                  *)
RootProgress ==
    \/ SaveWatched(Mutator)
    \/ Translate
    \/ Send
    \/ RootRecv
    \/ \E i \in 1 .. Len(jobs) :
          \/ RootIsFile(i) \/ RootStoreHash(i) \/ RootCopyOpen(i)
          \/ RootCopyWrite(i) \/ HandleGetFile(i) \/ HandleDeleteFile(i)
          \/ RootSave(i)

(* the runtime runs a thread or a task that can take a step *)
FairRoot == SpecRoot /\ WF_vars(RootProgress)

----------------------------------------------------------------------------
(* Claims about the blob store *)

ObjectsHolding(st, b) == {p \in DOMAIN st : st[p].data = b}

(* C1: store_content is idempotent.  A call whose object already exists    *)
(* leaves the whole object directory unchanged (no file is created,        *)
(* rewritten or touched); the first call creates exactly that one object;  *)
(* afterwards the content is held at the returned hash and nowhere else;   *)
(* and a call that repeats the call before it returns the same (hash,      *)
(* size).                                                                  *)
C1_StoreContentIdempotent ==
    [][last'.op = "store_content" =>
        LET b == last'.bytes
            target == hash_to_path(last'.ret.hash)
        IN  /\ last'.ret.ok /\ last'.ret.size = Len(b)
            /\ IF target \in DOMAIN objects
               THEN objects' = objects
               ELSE objects' = Put(objects, target, [data |-> b, rewritten |-> FALSE])
            /\ ObjectsHolding(objects', b) = {target}
            /\ (last.op = "store_content" /\ last.bytes = b => last'.ret = last.ret)
      ]_vars

(* a second store_content of the same bytes, with other objects in the store *)
C1_Witness ==
    /\ last.op = "store_content" /\ last.linked
    /\ Cardinality(DOMAIN objects) > 1

(* C2: retrieve_file on the hash returned by store_content(b), or by       *)
(* store_file on a file whose content is b, returns exactly b, and the     *)
(* returned size is the length of b.                                       *)
C2_StoreRetrieveRoundTrip ==
    /\ last.op = "store_content" =>
          /\ retrieve_file(objects, last.ret.hash) = OkData(last.bytes)
          /\ last.ret.size = Len(last.bytes)
    /\ last.op = "store_file" /\ last.ret.ok =>
          /\ retrieve_file(objects, last.ret.hash) = OkData(srcFiles[last.source])
          /\ last.ret.size = Len(srcFiles[last.source])
    /\ last.op = "retrieve_file" /\ last.linked => last.ret = OkData(last.bytes)

(* retrieve_file has returned the bytes of a file of several blocks that   *)
(* store_file stored in the call before                                    *)
C2_Witness ==
    /\ last.op = "retrieve_file" /\ last.linked
    /\ last.ret.ok /\ Len(last.ret.data) > ChunkSize
    /\ Cardinality(DOMAIN objects) > 1

(* C3: for a file larger than the chunk threshold, store_chunked returns   *)
(* the hash of the whole content; the manifest lists the returned chunks,  *)
(* whose contents concatenated in order are the file; and retrieve_chunked *)
(* on the returned hash gives back the file's bytes.                       *)
C3_ChunkedRoundTrip ==
    /\ last.op = "store_chunked" /\ last.ret.ok /\ SizeOf(last.source) > ChunkSize =>
          LET content == srcFiles[last.source]
              manifest_path == hash_to_path(ManifestPrefix \o last.ret.hash)
          IN  /\ last.ret.hash = Sha256Hex(content)
              /\ last.ret.size = Len(content)
              /\ manifest_path \in DOMAIN objects
              /\ ManifestFromJson(objects[manifest_path].data) =
                    [ok |-> TRUE, file_hash |-> last.ret.hash,
                     file_size |-> Len(content), chunks |-> last.ret.chunks]
              /\ RetrieveChunks(objects, last.ret.chunks) = OkData(content)
              /\ retrieve_chunked(objects, last.ret.hash) = OkData(content)
    /\ last.op = "retrieve_chunked" /\ last.linked => last.ret = OkData(last.bytes)

(* retrieve_chunked has rebuilt a file larger than the threshold from the  *)
(* manifest store_chunked wrote in the call before                         *)
C3_Witness ==
    /\ last.op = "retrieve_chunked" /\ last.linked
    /\ last.ret.ok /\ Len(last.ret.data) > ChunkSize
    /\ hash_to_path(ManifestPrefix \o last.hash) \in DOMAIN objects

(* C4: store_file on a second file with the content of the file stored by  *)
(* the call before returns the same hash, leaves the object directory      *)
(* unchanged (no new object, the existing one not rewritten), and the      *)
(* store holds exactly one object with that content.                       *)
C4_Deduplication ==
    [][last'.op = "store_file" /\ last'.linked =>
        /\ last'.ret.hash = last.ret.hash
        /\ objects' = objects
        /\ Cardinality(ObjectsHolding(objects', srcFiles[last'.source])) = 1
        /\ \A p \in ObjectsHolding(objects', srcFiles[last'.source]) :
              ~objects'[p].rewritten
      ]_vars

(* two distinct files with the same non-empty content have been stored *)
C4_Witness ==
    /\ last.op = "store_file" /\ last.linked
    /\ last.source = "file2" /\ srcFiles["file1"] = srcFiles["file2"]
    /\ Len(srcFiles["file2"]) > 0

----------------------------------------------------------------------------
(* Claims about the metadata repository and the sync engine *)

IdsOf(records) == {records[k].id : k \in 1 .. Len(records)}

RecordOf(records, id) == records[CHOOSE k \in 1 .. Len(records) : records[k].id = id]

Returned(t, op) == task[t].pc = "return" /\ task[t].op = op

(* C5: a FileRecord is created with version 1; an update_file that finds   *)
(* the record stores the new hash and size, makes the version exactly one  *)
(* greater than it was and sets updated_at to the later time of the        *)
(* update; a successful update_file returns that record; and through every *)
(* step the version of an id that stays in the table never decreases.      *)
C5_Returned ==
    \A t \in Tasks :
        /\ Returned(t, "create_file") /\ task[t].ret.ok =>
              /\ task[t].ret.rec[1].version = 1
              /\ task[t].ret.rec[1].path = task[t].new_file.path
        /\ Returned(t, "update_file") /\ task[t].ret.ok =>
              LET old == task[t].seen[1]
                  new == task[t].ret.rec[1]
              IN  /\ new.id = task[t].file_id /\ old.id = task[t].file_id
                  /\ new.version = old.version + 1
                  /\ new.hash = task[t].new_file.hash
                  /\ new.size = task[t].new_file.size
                  /\ new.updated_at > old.updated_at
                  /\ new.path = old.path /\ new.created_at = old.created_at

C5_Step ==
    /\ \A id \in IdsOf(files') \ IdsOf(files) : RecordOf(files', id).version = 1
    /\ \A id \in IdsOf(files') \cap IdsOf(files) :
          RecordOf(files', id).version >= RecordOf(files, id).version
    /\ \A t \in Tasks :
          task[t].pc = "idle" /\ task'[t].pc = "save" /\ task'[t].op = "update_file" =>
             LET old == RecordOf(files, task'[t].file_id)
                 new == RecordOf(files', task'[t].file_id)
             IN  /\ new.version = old.version + 1
                 /\ new.hash = task'[t].new_file.hash
                 /\ new.size = task'[t].new_file.size
                 /\ new.updated_at > old.updated_at
                 /\ task'[t].record = RepoOk(Some(new))

C5_VersionMonotonic == [](C5_Returned) /\ [][C5_Step]_vars

(* update_file has returned a record at version 2 with another hash *)
C5_Witness ==
    \E t \in Tasks :
        /\ Returned(t, "update_file") /\ task[t].ret.ok
        /\ task[t].ret.rec[1].version = 2
        /\ task[t].ret.rec[1].hash # task[t].seen[1].hash
        /\ task[t].ret.rec[1] \in {files[k] : k \in 1 .. Len(files)}

(* the decision rule of the plan, on the file table as it is *)
RemoteAt(path) == {files[k] : k \in {j \in 1 .. Len(files) : files[j].path = path}}

RuleAction(local) ==
    IF RemoteAt(local.path) = {} THEN "Upload"
    ELSE LET remote == CHOOSE r \in RemoteAt(local.path) : TRUE IN
         IF remote.hash = local.hash THEN "Skip"
         ELSE IF remote.version > local.version THEN "Download"
         ELSE "Upload"

(* C6: a plan made while no other task changes the file table gives every  *)
(* local record the action of the rule: Upload when no remote record has   *)
(* its path, Skip when the remote hash equals the local hash, otherwise    *)
(* Download when the remote version is greater and Upload when it is not   *)
(* (C6_Undisturbed); and every item of every plan follows that rule on the *)
(* records the planner looks at (C6_Step).                                 *)
C6_Undisturbed ==
    \A t \in Tasks :
        Returned(t, "create_sync_plan") /\ ~task[t].disturbed =>
            /\ Len(task[t].plans) = Len(task[t].local_files)
            /\ \A k \in 1 .. Len(task[t].plans) :
                  task[t].plans[k].action = RuleAction(task[t].local_files[k])

(* in every plan, disturbed or not, an item pushed for a local record has  *)
(* the action of the rule on what the planner looks at: Upload when the    *)
(* path was not in the list taken at the start, else the rule on the file  *)
(* table at the time the record is looked up                               *)
C6_Step ==
    \A t \in Tasks :
        task[t].pc = "plan" /\ Len(task'[t].plans) = Len(task[t].plans) + 1 =>
            LET local == task[t].local_files[task[t].i]
                item == task'[t].plans[Len(task'[t].plans)]
            IN  item.action = IF local.path \in task[t].remote_paths
                              THEN RuleAction(local) ELSE "Upload"

C6_PlanDecisionRule == [](C6_Undisturbed) /\ [][C6_Step]_vars

(* an undisturbed plan of two records: Download for the one whose remote   *)
(* record is newer, Upload for the one the server does not have            *)
C6_Witness ==
    \E t \in Tasks :
        /\ Returned(t, "create_sync_plan") /\ ~task[t].disturbed
        /\ Len(task[t].plans) = 2
        /\ {task[t].plans[k].action : k \in 1 .. 2} = {"Download", "Upload"}

(* C7: the plan has exactly one item for each local record, in the order   *)
(* of the local records, each with the id and the path of its record, also *)
(* when another task creates, updates or deletes FileRecords meanwhile.    *)
C7_OneItemPerLocalEntry ==
    \A t \in Tasks :
        Returned(t, "create_sync_plan") =>
            /\ Len(task[t].plans) = Len(task[t].local_files)
            /\ \A k \in 1 .. Len(task[t].plans) :
                  /\ task[t].plans[k].file_id = task[t].local_files[k].id
                  /\ task[t].plans[k].path = task[t].local_files[k].path

(* C8: no plan item has the action Delete; every item belongs to a local   *)
(* record, so a path only the server has gets no item; and the steps of    *)
(* create_sync_plan change no FileRecord, no SyncRecord and not the        *)
(* document on disk.                                                       *)
C8_Items ==
    \A t \in Tasks :
        task[t].op = "create_sync_plan" =>
            \A k \in 1 .. Len(task[t].plans) :
                /\ task[t].plans[k].action \in {"Upload", "Download", "Skip"}
                /\ \E j \in 1 .. Len(task[t].local_files) :
                      /\ task[t].local_files[j].path = task[t].plans[k].path
                      /\ task[t].local_files[j].id = task[t].plans[k].file_id

C8_PlannerStep ==
    \A t \in Tasks :
        /\ task[t].op = "create_sync_plan" \/ task'[t].op = "create_sync_plan"
        /\ task'[t].pc # task[t].pc \/ task'[t].i # task[t].i
        => UNCHANGED <<files, syncs, disk>>

SyncRecordsWith(id, status) ==
    {k \in 1 .. Len(syncs) : syncs[k].id = id /\ syncs[k].sync_status = status}

(* C9: for every action, when sync_file returns success and no other task  *)
(* changed the tables during the call, the SyncRecord the call created     *)
(* exists with status Completed.                                           *)
C9_SuccessCompleted ==
    \A t \in Tasks :
        Returned(t, "sync_file") /\ task[t].ret.ok /\ ~task[t].disturbed =>
            /\ task[t].made # 0
            /\ SyncRecordsWith(task[t].made, "Completed") # {}

(* C10: when the action of sync_file fails and no other task changed the   *)
(* tables during the call, the SyncRecord the call created ends with       *)
(* status Failed and sync_file returns the error of the action.            *)
C10_FailureFailed ==
    \A t \in Tasks :
        Returned(t, "sync_file") /\ ~task[t].result.ok /\ ~task[t].disturbed =>
            /\ task[t].made # 0 => SyncRecordsWith(task[t].made, "Failed") # {}
            /\ task[t].ret = RepoRet(FALSE, task[t].result.err, None)

----------------------------------------------------------------------------
(* C11: a sync record that is Completed or Failed keeps its status for as  *)
(* long as it exists, whatever operation runs, and the step of sync_file   *)
(* that creates its record appends one record with an id no record had     *)
(* before and leaves every other record as it was.                         *)
TerminalStatus == {"Completed", "Failed"}

C11_TerminalKept ==
    \A i \in 1 .. Len(syncs) :
        syncs[i].sync_status \in TerminalStatus =>
            \A j \in 1 .. Len(syncs') :
                syncs'[j].id = syncs[i].id =>
                    syncs'[j].sync_status = syncs[i].sync_status

C11_SyncFileAppends ==
    \A t \in Tasks :
        (task[t].pc = "idle" /\ task'[t].op = "sync_file" /\ syncs' # syncs) =>
            /\ Len(syncs') = Len(syncs) + 1
            /\ SubSeq(syncs', 1, Len(syncs)) = syncs
            /\ syncs'[Len(syncs')].id \notin KnownIds
            /\ syncs'[Len(syncs')].id = task'[t].made

C11_StatusTerminal == [][C11_TerminalKept /\ C11_SyncFileAppends]_vars

----------------------------------------------------------------------------
(* C12: an id whose file record was deleted has no file record and no sync *)
(* record ever after: the section of delete_file that finds the record     *)
(* removes it together with every sync record of the file, no later step   *)
(* brings the id back, create_sync on such an id returns NotFound and adds *)
(* nothing, and list_syncs_by_file on it returns the empty list; a         *)
(* delete_file that returned Ok left its id in that state.                 *)
Gone(id) == id \notin IdsOf(files)

C12_NoDanglingSync ==
    /\ \A id \in KnownIds : Gone(id) => list_syncs_by_file(Data, id) = <<>>
    /\ \A t \in Tasks :
          (Returned(t, "delete_file") /\ task[t].ret.ok) =>
              /\ Gone(task[t].file_id)
              /\ list_syncs_by_file(Data, task[t].file_id) = <<>>

C12_Step ==
    /\ \A id \in KnownIds : Gone(id) => id \notin IdsOf(files')
    /\ \A t \in Tasks :
          /\ (task[t].pc = "idle" /\ task'[t].op = "delete_file"
                                  /\ task'[t].pc = "save") =>
                /\ task'[t].file_id \in IdsOf(files) \ IdsOf(files')
                /\ \A j \in 1 .. Len(syncs') : syncs'[j].file_id # task'[t].file_id
          /\ (task[t].pc = "idle" /\ task'[t].op = "list_syncs_by_file"
                                  /\ Gone(task'[t].file_id)) =>
                task'[t].ret = RepoOk(<<>>)
          /\ (task[t].pc = "idle" /\ task'[t].op = "create_sync"
                                  /\ Gone(task'[t].file_id)) =>
                /\ task'[t].ret = RepoErr(NotFoundId("file", task'[t].file_id))
                /\ task'[t].pc = "return"
                /\ syncs' = syncs

C12_CascadeDelete == [](C12_NoDanglingSync) /\ [][C12_Step]_vars

(* a delete_file has removed a file whose sync record is still in the      *)
(* document on disk, while the other task is inside a create_sync for the  *)
(* same file that passed its check before the delete                       *)
C12_Witness ==
    \E t \in Tasks, u \in Tasks :
        /\ task[t].op = "delete_file" /\ task[t].pc \in {"save", "return"}
        /\ task[t].record.ok
        /\ \E j \in 1 .. Len(disk.syncs) : disk.syncs[j].file_id = task[t].file_id
        /\ task[u].op = "create_sync" /\ task[u].pc = "save"
        /\ task[u].file_id = task[t].file_id
        /\ list_syncs_by_file(Data, task[t].file_id) = <<>>

----------------------------------------------------------------------------
(* the translated events the closure has produced and the events the       *)
(* consumer has passed to the callback                                     *)
RECURSIVE Translated(_)
Translated(results) ==
    IF results = <<>> THEN <<>>
    ELSE translate(Head(results)) \o Translated(Tail(results))

Produced == Translated(SubSeq(raw, 1, taken))
Handed == [i \in 1 .. Len(jobs) |-> jobs[i].event]

(* C13: the events passed to the callback, then those in the channel, then *)
(* the one inside blocking_send are exactly the translated events in the   *)
(* order they were produced; so the events passed to the callback are a    *)
(* prefix of the produced ones, none dropped, repeated or out of order.    *)
C13_InOrderLossless ==
    /\ Handed \o queue \o sending = Produced
    /\ Len(Handed) <= Len(Produced)
    /\ SubSeq(Produced, 1, Len(Handed)) = Handed

(* the channel is full of events that differ from each other, the thread   *)
(* waits in blocking_send with a further one, an event was passed on       *)
C13_Witness ==
    /\ Len(queue) = QueueCapacity
    /\ sending # None
    /\ jobs # <<>>
    /\ Cardinality({Produced[i] : i \in 1 .. Len(Produced)}) >= 3

(* C14: the channel never holds more than its capacity; while it is full   *)
(* the thread inside blocking_send stays there and only a receive changes  *)
(* the channel; and when the consumer and the waiting thread are scheduled *)
(* fairly, the n-th translated event, which may be the one of the waiting  *)
(* thread, is passed to the callback, for every n.                         *)
C14_Bounded == Len(queue) <= QueueCapacity

C14_Blocks ==
    (sending # None /\ Len(queue) = QueueCapacity) =>
        /\ sending' = sending
        /\ queue' = queue \/ queue' = Tail(queue)

C14_Delivered ==
    \A n \in 1 .. MaxEvents : (Len(Produced) >= n) ~> (Len(Handed) >= n)

----------------------------------------------------------------------------
(* C15: a task whose handle_event failed ends there: it changes neither    *)
(* the channel nor the event of the waiting thread nor the calls of the    *)
(* callback, it does not run again, and no task returns to its start; and  *)
(* when the threads and tasks are scheduled fairly, the n-th translated    *)
(* event is passed to the callback and its task ends, for every n,         *)
(* whatever happened to the tasks before it.                               *)
Failed(job) == job.pc = "done" /\ ~job.ret.ok

C15_Step ==
    /\ Len(jobs') >= Len(jobs)
    /\ \A i \in 1 .. Len(jobs) :
          /\ jobs[i].pc = "done" => jobs'[i] = jobs[i]
          /\ jobs[i].pc # "spawned" => jobs'[i].pc # "spawned"
          /\ (~Failed(jobs[i]) /\ Failed(jobs'[i])) =>
                /\ queue' = queue /\ sending' = sending
                /\ raw' = raw /\ taken' = taken
                /\ Len(jobs') = Len(jobs)
                /\ \A k \in 1 .. Len(jobs) : k # i => jobs'[k] = jobs[k]

C15_Handled ==
    \A n \in 1 .. MaxChanges :
        (Len(Produced) >= n) ~> (Len(jobs) >= n /\ jobs[n].pc = "done")

C15_FailureDoesNotHalt == [][C15_Step]_vars /\ C15_Handled

(* the task of one event failed, and the task of a later event has ended *)
C15_Witness ==
    \E i \in 1 .. Len(jobs), k \in 1 .. Len(jobs) :
        /\ i < k
        /\ Failed(jobs[i])
        /\ jobs[k].pc = "done" /\ jobs[k].ret.ok
        /\ jobs[k].event.kind \in {"Created", "Modified"}
        /\ objects # << >>

(* C16: when the threads and tasks are scheduled fairly, a file of the     *)
(* watched directory with content c leads to an object at the hash of c in *)
(* the store, unless the file is removed or written again first; and the   *)
(* Created event of every Create that notify reports is passed to the      *)
(* callback.                                                               *)
Holds(path, content) == path \in DOMAIN srcFiles /\ srcFiles[path] = content

Stored(content) == file_exists(objects, Sha256Hex(content))

C16_Stored ==
    \A path \in WatchedPaths, content \in WatchedContents :
        Holds(path, content) ~> (Stored(content) \/ ~Holds(path, content))

(* notify's n-th event is a Create with a path; its translation was passed *)
(* to the callback                                                         *)
CreateAt(n) ==
    Len(raw) >= n /\ raw[n].ok /\ raw[n].kind = "Create" /\ raw[n].paths # <<>>

CreatedHanded(n) ==
    /\ CreateAt(n)
    /\ LET k == Len(Translated(SubSeq(raw, 1, n)))
       IN  /\ k >= 1
           /\ Len(Handed) >= k
           /\ Handed[k] = FileEvent("Created", Head(raw[n].paths))

C16_CreatedReachesCallback ==
    \A n \in 1 .. MaxChanges : CreateAt(n) ~> CreatedHanded(n)

C16_WatcherDelivery == C16_Stored /\ C16_CreatedReachesCallback

(* the task of a Created event has stored the file: the object at the hash *)
(* of the file's content holds that content                                *)
C16_Witness ==
    \E i \in 1 .. Len(jobs), path \in WatchedPaths :
        /\ jobs[i].event = FileEvent("Created", path)
        /\ jobs[i].pc = "done" /\ jobs[i].ret.ok
        /\ path \in DOMAIN srcFiles /\ srcFiles[path] # <<>>
        /\ Stored(srcFiles[path])
        /\ objects[hash_to_path(Sha256Hex(srcFiles[path]))].data = srcFiles[path]

----------------------------------------------------------------------------
(* C17: no two file records share a path.  The section of create_file adds *)
(* a record exactly when no record has the path: then it appends one       *)
(* record with that path and a new id, otherwise it returns AlreadyExists  *)
(* and leaves the table as it is.  Of two calls for the same path that are *)
(* running at once at most one has its record in the table, and a call     *)
(* that returns Ok returns the record it added.                            *)
PathsOf(records) == {records[k].path : k \in 1 .. Len(records)}

C17_UniquePaths ==
    /\ \A i \in 1 .. Len(files), j \in 1 .. Len(files) :
          files[i].path = files[j].path => i = j
    /\ \A t \in Tasks, u \in Tasks :
          (/\ t # u
           /\ task[t].op = "create_file" /\ task[u].op = "create_file"
           /\ task[t].new_file.path = task[u].new_file.path
           /\ task[t].record.ok /\ task[u].record.ok
           /\ task[t].record.rec # None /\ task[u].record.rec # None) =>
              ~(/\ task[t].record.rec[1].id \in IdsOf(files)
                /\ task[u].record.rec[1].id \in IdsOf(files))
    /\ \A t \in Tasks :
          (Returned(t, "create_file") /\ task[t].ret.ok) =>
              /\ task[t].ret = task[t].record
              /\ task[t].ret.rec[1].path = task[t].new_file.path

C17_Step ==
    \A t \in Tasks :
        (task[t].pc = "idle" /\ task'[t].op = "create_file") =>
            LET path == task'[t].new_file.path IN
            IF path \in PathsOf(files)
            THEN /\ files' = files
                 /\ task'[t].pc = "return"
                 /\ task'[t].ret = RepoErr(AlreadyExists(path))
            ELSE /\ Len(files') = Len(files) + 1
                 /\ SubSeq(files', 1, Len(files)) = files
                 /\ files'[Len(files')].path = path
                 /\ files'[Len(files')].id \notin KnownIds
                 /\ task'[t].pc = "save"
                 /\ task'[t].record = RepoOk(Some(files'[Len(files')]))

C17_PathUniqueKey == [](C17_UniquePaths) /\ [][C17_Step]_vars

(* two calls for the same path are running: one has added its record, the  *)
(* other has AlreadyExists                                                 *)
C17_Witness ==
    \E t \in Tasks, u \in Tasks :
        /\ task[t].op = "create_file" /\ task[t].pc = "save"
        /\ task[t].record.rec[1].id \in IdsOf(files)
        /\ Returned(u, "create_file")
        /\ task[u].new_file.path = task[t].new_file.path
        /\ task[u].ret = RepoErr(AlreadyExists(task[t].new_file.path))

----------------------------------------------------------------------------
(* C18: an object at the location of a hash, once it exists, is written by *)
(* no store call again: no step of store_content, store_file or the chunk  *)
(* loop of store_chunked writes a file that is already there.  (The        *)
(* manifests of store_chunked are not objects at a hash.)                  *)
ObjectPaths(st) == {path \in DOMAIN st : SubSeq(path.prefix, 1, 1) # SubSeq(ManifestPrefix, 1, 1)}

C18_NoRewrite ==
    \A path \in ObjectPaths(objects) :
        path \in DOMAIN objects' /\ objects'[path] = objects[path]

C18_SkipIfPresent == [][C18_NoRewrite]_vars

----------------------------------------------------------------------------
(* C19: retrieve_file returns NotFound exactly when no object is at the    *)
(* location of the hash, and the object's bytes otherwise; delete_file     *)
(* returns Ok, leaves no object at the hash and every other object as it   *)
(* was, and changes nothing when the hash had no object; a retrieve_file   *)
(* of the hash right after its delete_file returns NotFound.               *)
C19_AfterDelete ==
    last.op = "delete_file" => last.ret.ok /\ ~file_exists(objects, last.hash)

C19_Step ==
    /\ last'.op = "retrieve_file" =>
          /\ objects' = objects
          /\ (~last'.ret.ok /\ last'.ret.err = "NotFound")
                <=> ~file_exists(objects, last'.hash)
          /\ file_exists(objects, last'.hash) =>
                last'.ret = OkData(objects[hash_to_path(last'.hash)].data)
          /\ (last.op = "delete_file" /\ last.hash = last'.hash) =>
                last'.ret = Err("NotFound")
    /\ last'.op = "delete_file" =>
          /\ last'.ret = OkUnit
          /\ DOMAIN objects' = DOMAIN objects \ {hash_to_path(last'.hash)}
          /\ \A path \in DOMAIN objects' : objects'[path] = objects[path]
          /\ ~file_exists(objects, last'.hash) => objects' = objects

C19_RetrieveDelete == [](C19_AfterDelete) /\ [][C19_Step]_vars

(* an object was deleted while another one stays in the store *)
C19_Witness ==
    /\ last.op = "delete_file" /\ last.linked
    /\ objects # << >>
    /\ ~file_exists(objects, last.hash)

----------------------------------------------------------------------------
(* C20: the loop takes the items of the plan one at a time in plan order;  *)
(* the items taken so far are the first ones of the plan, only the last of *)
(* them can have failed, and then sync has returned that error; local_path *)
(* and the server hold the effects of all items that ended without error,  *)
(* applied in order to what they held at the start, also after the         *)
(* failure; a step takes one item, the next one.                           *)
RECURSIVE RunItems(_, _)
RunItems(c, items) ==
    IF items = <<>> THEN c ELSE RunItems(run_item(c, Head(items)), Tail(items))

Succeeded == Cardinality({k \in 1 .. Len(cli.tried) : cli.tried[k]})

C20_Sequential ==
    cli.pc \in {"loop", "return"} =>
        /\ Len(cli.tried) <= Len(cli.plan)
        /\ \A k \in 1 .. Len(cli.tried) :
              ~cli.tried[k] => /\ k = Len(cli.tried)
                               /\ cli.pc = "return" /\ ~cli.ret.ok
        /\ (cli.pc = "return" /\ cli.ret.ok) => Len(cli.tried) = Len(cli.plan)
        /\ LET applied == RunItems([CliStart EXCEPT !.dry_run = cli.dry_run],
                                   SubSeq(cli.plan, 1, Succeeded))
           IN  /\ cli.local = applied.local
               /\ cli.remote = applied.remote
               /\ cli.report = applied.report

C20_Step ==
    /\ Len(cli'.tried) \in {Len(cli.tried), Len(cli.tried) + 1}
    /\ SubSeq(cli'.tried, 1, Len(cli.tried)) = cli.tried
    /\ cli.pc = "return" => cli' = cli

C20_NoRollback == [](C20_Sequential) /\ [][C20_Step]_vars

(* the second of three items failed after the first changed the server:    *)
(* sync returned the error, the upload stays, the third item was not taken *)
C20_Witness ==
    /\ cli.pc = "return" /\ ~cli.ret.ok
    /\ Len(cli.plan) = 3
    /\ cli.tried = <<TRUE, FALSE>>
    /\ cli.plan[1].action = "upload"
    /\ cli.remote # CliStart.remote
    /\ cli.plan[3].action = "delete" /\ cli.plan[3].path \in DOMAIN cli.local

----------------------------------------------------------------------------
(* Claims about the upload handler *)

Uploads == {t \in Tasks : task[t].op = "upload_file"}

(* the step is one of task t's own *)
StepOf(t) == task'[t].pc # task[t].pc

(* the request of task t was refused: every step it takes leaves the file  *)
(* tree, the objects and the metadata as they are                          *)
C21_Refused ==
    \A t \in Tasks :
        LET tk == IF task[t].pc = "idle" THEN task'[t] ELSE task[t] IN
        StepOf(t) /\ tk.op = "upload_file" /\ Len(tk.body) > max_file_size
            => /\ task[t].pc \in {"idle", "return"}
               /\ task'[t].pc \in {"return", "idle"}
               /\ task[t].pc = "idle" =>
                      /\ task'[t].status = "PAYLOAD_TOO_LARGE"
                      /\ ~task'[t].ret.ok
               /\ UNCHANGED <<srcFiles, objects, files, syncs, disk>>

(* 413 is the answer to the bodies over the limit and to no other; a body  *)
(* within the limit is written to the file tree and stored                 *)
C21_Accepted ==
    \A t \in Uploads :
        LET tk == task[t] IN
        /\ tk.pc = "return" =>
               (tk.status = "PAYLOAD_TOO_LARGE" <=> Len(tk.body) > max_file_size)
        /\ Len(tk.body) <= max_file_size /\ tk.pc # "write"
               => tk.new_file.path \in DOMAIN srcFiles
        /\ Len(tk.body) <= max_file_size /\ tk.pc \notin {"write", "store_file"}
               => /\ tk.new_file.hash # None
                  /\ file_exists(objects, tk.new_file.hash[1])

(* an upload answered 200 that found no record of its path returns the     *)
(* record it created, with version 1; one that found a record returns a    *)
(* later version of that record                                            *)
C21_FirstVersion ==
    \A t \in Uploads :
        LET tk == task[t] IN
        tk.pc = "return" /\ tk.status = "OK"
            => /\ tk.ret.ok /\ tk.ret.rec # None
               /\ tk.ret.rec[1].path = tk.new_file.path
               /\ tk.ret.rec[1].hash = tk.new_file.hash
               /\ IF tk.file_id = 0 THEN tk.ret.rec[1].version = 1
                  ELSE /\ tk.ret.rec[1].id = tk.file_id
                       /\ tk.ret.rec[1].version > 1

(* C21: an upload whose body is longer than max_file_size is answered      *)
(* PAYLOAD_TOO_LARGE and changes neither the file tree nor the blob store  *)
(* nor the metadata; a body of at most max_file_size bytes passes the      *)
(* check, and the upload of a path without record that succeeds returns a  *)
(* FileRecord with version 1.                                              *)
C21_UploadSizeLimit ==
    /\ [](C21_Accepted /\ C21_FirstVersion)
    /\ [][C21_Refused]_vars

(* one request was refused, another with a body of exactly max_file_size   *)
(* bytes created the record of its path and was answered 200               *)
C21_Witness ==
    \E t, u \in Uploads :
        /\ task[t].pc = "return" /\ task[t].status = "PAYLOAD_TOO_LARGE"
        /\ task[u].pc = "return" /\ task[u].status = "OK"
        /\ Len(task[u].body) = max_file_size
        /\ task[u].file_id = 0 /\ task[u].ret.rec[1].version = 1

----------------------------------------------------------------------------
(* Claims about opening the repository *)

(* the file at db_path exists and is not a document serde_json reads *)
Unparsable(doc) == doc.kind # "absent" /\ ~from_str(doc).ok

(* opening on such a file gives the empty store *)
C22_OpensEmpty ==
    \A t \in Tasks :
        task[t].pc = "new" /\ task'[t].pc # "new" /\ Unparsable(disk)
            => /\ task'[t].pc = "idle"
               /\ files' = <<>> /\ syncs' = <<>>

(* a write of the document that succeeds leaves the table in memory at     *)
(* db_path and nothing of what was there                                   *)
C22_Overwrites ==
    disk' # disk /\ disk'.kind = "json" => disk' = to_string_pretty([files |-> files', syncs |-> syncs'])

(* C22: opening the metadata store on a persisted document that cannot be  *)
(* parsed does not fail but gives an empty store, and the first mutation   *)
(* that succeeds afterwards replaces the persisted document by the new     *)
(* table alone.                                                            *)
C22_CorruptDocumentTolerated == [][C22_OpensEmpty /\ C22_Overwrites]_vars

----------------------------------------------------------------------------
(* Claims about the translation of renames *)

(* what the claim allows the closure to send for a rename notification *)
RenameTranslations(event) ==
    {Some(FileEventRenamed(event.paths[1], event.paths[Len(event.paths)])),
     Some(FileEvent("Deleted", "a")), Some(FileEvent("Created", "b"))}

C23_Step ==
    taken' = taken + 1 /\ raw[taken + 1] \in RenameResults
        => sending' \in RenameTranslations(raw[taken + 1])

(* C23: a raw rename notification is translated into one Renamed(from, to) *)
(* event or into a Deleted(old path) event followed by a Created(new path) *)
(* event, and into no other event.                                         *)
C23_RenameTranslation ==
    /\ [][C23_Step]_vars
    /\ [](\A i \in 1 .. Len(queue) : queue[i].kind \in {"Renamed", "Deleted", "Created"})

----------------------------------------------------------------------------
(* Claims about the chunk list *)

(* the content cut into consecutive blocks of exactly ChunkSize bytes, the *)
(* last one possibly shorter                                               *)
RECURSIVE ExactBlocks(_)
ExactBlocks(content) ==
    IF content = <<>> THEN <<>>
    ELSE <<SubSeq(content, 1, Min(ChunkSize, Len(content)))>>
         \o ExactBlocks(SubSeq(content, ChunkSize + 1, Len(content)))

HashEach(blocks) == [i \in 1 .. Len(blocks) |-> Sha256Hex(blocks[i])]

(* C24: for a file longer than chunk_size, the chunk hashes store_chunked  *)
(* returns and writes into the manifest are the hashes of the consecutive  *)
(* blocks of exactly chunk_size bytes of the source (the last block may be *)
(* shorter), whatever number of bytes each read of the file returned.      *)
C24_ChunkListIsExactRechunk ==
    last.op = "store_chunked" /\ last.ret.ok /\ SizeOf(last.source) > ChunkSize
        => LET expected == HashEach(ExactBlocks(srcFiles[last.source]))
               manifest_path == hash_to_path(ManifestPrefix \o last.ret.hash)
           IN  /\ last.ret.chunks = expected
               /\ manifest_path \in DOMAIN objects
               /\ ManifestFromJson(objects[manifest_path].data).chunks = expected

----------------------------------------------------------------------------
(* Claims about the objects while calls are running *)

(* C25: in every reachable state, also while store_content or store_file   *)
(* calls for one new hash are running, a retrieve_file(h) that succeeds    *)
(* returns bytes whose hash is h, and an object that exists at h holds the *)
(* whole content with hash h.                                              *)
C25_ContentAddressIntegrity ==
    /\ last.op = "retrieve_file" /\ last.ret.ok => Sha256Hex(last.ret.data) = last.hash
    /\ \A h \in ContentHashes :
          file_exists(objects, h) => Sha256Hex(objects[hash_to_path(h)].data) = h

(* C26: store_file returns (h, size) such that the object stored at h has  *)
(* content whose hash is h and whose length is size, also when another     *)
(* task writes the source file between the hash computation, the copy and  *)
(* the read of the size.                                                   *)
C26_StoreFileResultMatchesObject ==
    \A t \in Tasks :
        LET c == storeCall[t] IN
        c.op = "store_file" /\ c.pc = "return" /\ c.ret.ok
            => /\ file_exists(objects, c.ret.hash)
               /\ Sha256Hex(objects[hash_to_path(c.ret.hash)].data) = c.ret.hash
               /\ Len(objects[hash_to_path(c.ret.hash)].data) = c.ret.size

----------------------------------------------------------------------------
(* Claims about concurrent calls of the repository *)

(* the update_file calls on id that have their result and succeeded *)
UpdatersOf(id) ==
    {t \in Tasks : Returned(t, "update_file") /\ task[t].file_id = id /\ task[t].ret.ok}

(* update_file is the only mutation of these runs and every section of it  *)
(* reads the clock once: the version of the record counts the sections,    *)
(* and the calls that have their results hold different versions, none     *)
(* above the record's                                                      *)
C27_Counted ==
    \A id \in IdsOf(files) :
        /\ RecordOf(files, id).version = 1 + clock
        /\ \A t \in UpdatersOf(id) :
              /\ task[t].ret.rec[1].version = task[t].seen[1].version + 1
              /\ task[t].ret.rec[1].version <= RecordOf(files, id).version
        /\ \A t, u \in UpdatersOf(id) :
              t # u => task[t].ret.rec[1].version # task[u].ret.rec[1].version

(* while update_file is the only mutation, the version of a record counts  *)
(* the update_file sections that found it                                  *)
C27_EverySectionCounts ==
    \A t \in Tasks :
        task[t].pc = "idle" /\ task'[t].op = "update_file" /\ task'[t].pc = "save"
            => RecordOf(files', task'[t].file_id).version
                   = RecordOf(files, task'[t].file_id).version + 1

(* C27: when n update_file calls on one id run concurrently and all        *)
(* succeed, the version of the record ends exactly n greater than it was   *)
(* before, and the n calls return n distinct versions.                     *)
C27_NoLostIncrement == [](C27_Counted) /\ [][C27_EverySectionCounts]_vars

(* two calls on one id, both with the same hash, have their results *)
C27_Witness ==
    \E id \in KnownIds :
        /\ UpdatersOf(id) = Tasks
        /\ \A t \in Tasks : task[t].new_file.hash = task["t1"].new_file.hash
        /\ RecordOf(files, id).version = 3

(* a write of the document that succeeds writes the table as it is at the  *)
(* write: a state the table has, and never one older than the document     *)
(* written before                                                          *)
C28_WritesCurrentTable ==
    /\ disk' # disk /\ disk'.kind = "json"
          => /\ disk' = to_string_pretty(Data)
             /\ files' = files /\ syncs' = syncs
    /\ \A t \in Tasks :
          task[t].pc = "save" /\ task'[t].pc = "return" /\ task'[t].ret.ok
              => disk' = to_string_pretty(Data)

(* no call is between its section and its save and no write has failed:    *)
(* the document is the table                                               *)
C28_Settled ==
    ioFails = 0 /\ (\A t \in Tasks : task[t].pc \in {"idle", "return"})
        => Repository_new(disk) = Data

(* C28: every document written to persistent storage equals a state the    *)
(* table in memory had, successive documents never go back to an older     *)
(* state of the table, and once all concurrently running mutations have    *)
(* completed without I/O error the document equals the table in memory.    *)
C28_PersistenceConsistency == [](C28_Settled) /\ [][C28_WritesCurrentTable]_vars

(* two calls changed the table one after the other; the save of the first  *)
(* has written both changes while the second call is still before its save *)
C28_Witness ==
    \E t, u \in Tasks :
        /\ task[t].pc = "return" /\ task[t].ret.ok /\ task[t].op = "create_file"
        /\ task[u].pc = "save" /\ task[u].op = "create_file"
        /\ Len(files) = 2
        /\ files[1] = task[t].ret.rec[1]
        /\ disk = to_string_pretty(Data)

(* one task at most holds the guard, and a task that is at save's          *)
(* lock().await holds none                                                 *)
C29_SaveWithoutGuard ==
    /\ \A t, u \in Tasks : task[t].guard /\ task[u].guard => t = u
    /\ \A t \in Tasks :
          /\ task[t].pc \in {"lock", "save_lock", "return", "idle"} => ~task[t].guard
          /\ task[t].pc \in {"section", "write"} => task[t].guard

(* a call that was issued returns *)
C29_Returns ==
    \A t \in Tasks :
        task[t].pc \in {"lock", "section", "save_lock", "write"} ~> task[t].pc = "return"

(* C29: no metadata operation calls save while it still holds the lock of  *)
(* the table (the lock is released first on every path, early error        *)
(* returns included), so under fair scheduling every metadata operation    *)
(* issued by any of the concurrent tasks eventually returns.               *)
C29_DeadlockFree == [](C29_SaveWithoutGuard) /\ C29_Returns

(* a call waits for the mutex in save while the other task holds it in its *)
(* section                                                                 *)
C29_Witness ==
    \E t, u \in Tasks :
        /\ task[t].pc = "save_lock"
        /\ task[u].pc = "section" /\ task[u].guard

(* every sync record of a table refers to a file record of that table *)
Referenced(data) ==
    \A j \in 1 .. Len(data.syncs) : data.syncs[j].file_id \in IdsOf(data.files)

(* the table in memory and the document at db_path *)
C30_Referenced ==
    /\ Referenced(Data)
    /\ disk.kind = "json" => Referenced(from_str(disk).data)

(* the section of create_sync: NotFound and nothing added when no file     *)
(* record has the id, one record of that file added otherwise              *)
C30_CreateSync ==
    \A t \in Tasks :
        task[t].pc = "idle" /\ task'[t].op = "create_sync" =>
            IF task'[t].file_id \in IdsOf(files)
            THEN /\ task'[t].pc = "save"
                 /\ files' = files
                 /\ Len(syncs') = Len(syncs) + 1
                 /\ SubSeq(syncs', 1, Len(syncs)) = syncs
                 /\ syncs'[Len(syncs')].file_id = task'[t].file_id
            ELSE /\ task'[t].pc = "return"
                 /\ task'[t].ret = RepoErr(NotFoundId("file", task'[t].file_id))
                 /\ files' = files /\ syncs' = syncs

(* C30: in every reachable state the file_id of every SyncRecord is the id *)
(* of a FileRecord that exists; create_sync for an id without FileRecord   *)
(* returns NotFound and adds no record, under every interleaving of        *)
(* create_sync and delete_file.                                            *)
C30_ReferentialIntegrity == [](C30_Referenced) /\ [][C30_CreateSync]_vars

(* create_sync has returned NotFound for a file that the other task's      *)
(* delete_file, still before its save, removed together with a sync record *)
C30_Witness ==
    \E t, u \in Tasks :
        /\ Returned(t, "create_sync")
        /\ task[t].ret = RepoErr(NotFoundId("file", task[t].file_id))
        /\ task[u].op = "delete_file" /\ task[u].pc = "save"
        /\ task[u].file_id = task[t].file_id
        /\ \E j \in 1 .. Len(disk.syncs) : disk.syncs[j].file_id = task[t].file_id
        /\ syncs = <<>>

----------------------------------------------------------------------------
(* Claims about calls of the repository that fail *)

(* the result of a mutating operation that failed, while no other task has *)
(* changed the tables since the call began                                 *)
FailedAlone(t, op) ==
    Returned(t, op) /\ ~task[t].ret.ok /\ ~task[t].disturbed

(* C31: when create_file, update_file, delete_file, create_sync or         *)
(* update_sync_status returns an error of any kind (NotFound,              *)
(* AlreadyExists, or the error of the write of the document), the tables   *)
(* in memory are as they were before the call: the record the call made is *)
(* not in the table, the record it was to change is as the call found it,  *)
(* the record it was to delete is still there.                             *)
C31_FailedMutationHasNoEffect ==
    \A t \in Tasks :
        /\ FailedAlone(t, "create_file") =>
              \A k \in 1 .. Len(files) :
                  task[t].record.rec = None \/ files[k] # task[t].record.rec[1]
        /\ FailedAlone(t, "update_file") /\ task[t].seen # None =>
              /\ task[t].file_id \in IdsOf(files)
              /\ RecordOf(files, task[t].file_id) = task[t].seen[1]
        /\ FailedAlone(t, "delete_file") /\ task[t].ret.err.kind = "Io" =>
              task[t].file_id \in IdsOf(files)
        /\ FailedAlone(t, "create_sync") => task[t].made \notin IdsOf(syncs)
        /\ FailedAlone(t, "update_sync_status") /\ task[t].seen # None =>
              /\ task[t].file_id \in IdsOf(syncs)
              /\ RecordOf(syncs, task[t].file_id) = task[t].seen[1]

----------------------------------------------------------------------------
(* Claims about what sync_file changes *)

(* the records of `after` are those of `before`, but for the status and    *)
(* the time of the record with this id                                     *)
OnlyStatusOf(before, after, id) ==
    /\ Len(after) = Len(before)
    /\ \A k \in 1 .. Len(before) :
          IF before[k].id = id
          THEN after[k] = [before[k] EXCEPT
                              !.sync_status = after[k].sync_status,
                              !.last_sync_at = after[k].last_sync_at]
          ELSE after[k] = before[k]

(* C32: every step of a sync_file call with action Upload, Download or     *)
(* Skip leaves the FileRecords as they are, and changes the SyncRecords    *)
(* only by adding the one record of the call or by setting the status of   *)
(* that record; every step of a call with action Delete leaves the         *)
(* FileRecords as they are or removes exactly the record with the call's   *)
(* file_id, the other records staying as they are and in their order.      *)
C32_Step ==
    \A t \in Tasks :
        StepOf(t) /\ task'[t].op = "sync_file" =>
            LET tk == task'[t] IN
            /\ tk.action # "Delete" =>
                  /\ files' = files
                  /\ \/ syncs' = syncs
                     \/ /\ Len(syncs') = Len(syncs) + 1
                        /\ SubSeq(syncs', 1, Len(syncs)) = syncs
                        /\ syncs'[Len(syncs')].id = tk.made
                        /\ syncs'[Len(syncs')].file_id = tk.file_id
                     \/ /\ task[t].pc = "update_sync_status"
                        /\ OnlyStatusOf(syncs, syncs', tk.made)
            /\ tk.action = "Delete" =>
                  IF task[t].pc = "delete_file"
                  THEN files' = SelectSeq(files, LAMBDA f : f.id # tk.file_id)
                  ELSE files' = files

C32_SyncFileFrame == [][C32_Step]_vars

(* a sync_file with action Delete has returned: the record of its file_id  *)
(* is gone and a record of another file is in the table                    *)
C32_Witness ==
    \E t \in Tasks :
        /\ Returned(t, "sync_file") /\ task[t].action = "Delete" /\ task[t].ret.ok
        /\ task[t].file_id \notin IdsOf(files)
        /\ files # <<>>

(* a sync_file with action Skip has returned and its record is Completed *)
C32_SkipWitness ==
    \E t \in Tasks :
        /\ Returned(t, "sync_file") /\ task[t].action = "Skip" /\ task[t].ret.ok
        /\ task[t].made \in IdsOf(syncs)
        /\ RecordOf(syncs, task[t].made).sync_status = "Completed"
        /\ task[t].file_id \in IdsOf(files)

(* C33: when sync_file has returned, with Ok or with an error, the         *)
(* SyncRecord the call created, if it is in the table, is not Pending or   *)
(* Syncing; and the action runs (delete_file is called) only when          *)
(* create_sync returned the record.                                        *)
C33_NoneLeftSyncing ==
    \A t \in Tasks :
        Returned(t, "sync_file") /\ task[t].made \in IdsOf(syncs) =>
            RecordOf(syncs, task[t].made).sync_status \notin {"Pending", "Syncing"}

C33_ActionAfterCreate ==
    \A t \in Tasks :
        task[t].op = "sync_file" /\ task[t].pc = "delete_file" /\ StepOf(t) =>
            task[t].sync_record.ok

C33_SyncingTransient == [](C33_NoneLeftSyncing) /\ [][C33_ActionAfterCreate]_vars

----------------------------------------------------------------------------
(* Claims about the effects of handle_event *)

(* the job's step: its position moves *)
JobStep(i) == i <= Len(jobs) /\ jobs'[i].pc # jobs[i].pc

HandledOk(i, kinds) ==
    jobs[i].pc = "done" /\ jobs[i].ret.ok /\ jobs[i].event.kind \in kinds

(* the record the job found at its path and all sync records of its id     *)
(* are out of the tables                                                   *)
RecordRemoved(i) ==
    /\ jobs[i].file_id \notin IdsOf(files)
    /\ \A k \in 1 .. Len(syncs) : syncs[k].file_id # jobs[i].file_id

(* C34: a handle_event that returned Ok has, for Deleted(path) and for     *)
(* Renamed(from, to) whose path had a FileRecord, removed that record and  *)
(* all SyncRecords of its id; for Renamed, and for Created and Modified,   *)
(* the content of the file at `to` (at the path) is an object of the store *)
(* when the file exists.  The step that removes the record removes only    *)
(* it and the SyncRecords of its id; for Renamed the store comes after the *)
(* removal; and no step of a Created or Modified task changes the tables   *)
(* or the document.                                                        *)
C34_Handled ==
    \A i \in 1 .. Len(jobs) :
        /\ HandledOk(i, {"Deleted", "Renamed"}) /\ jobs[i].file_id # 0 => RecordRemoved(i)
        /\ HandledOk(i, {"Renamed"}) /\ jobs[i].event.to \in DOMAIN srcFiles =>
              /\ Stored(srcFiles[jobs[i].event.to])
              /\ objects[hash_to_path(Sha256Hex(srcFiles[jobs[i].event.to]))].data
                    = srcFiles[jobs[i].event.to]
        /\ HandledOk(i, {"Created", "Modified"}) /\ jobs[i].event.path \in DOMAIN srcFiles =>
              /\ Stored(srcFiles[jobs[i].event.path])
              /\ objects[hash_to_path(Sha256Hex(srcFiles[jobs[i].event.path]))].data
                    = srcFiles[jobs[i].event.path]

C34_Step ==
    \A i \in 1 .. Len(jobs) :
        JobStep(i) =>
            /\ jobs[i].pc \in {"delete_file", "renamed_delete_file"} =>
                  /\ files' = SelectSeq(files, LAMBDA f : f.id # jobs[i].file_id)
                  /\ syncs' = SelectSeq(syncs, LAMBDA s : s.file_id # jobs[i].file_id)
            /\ jobs[i].pc = "spawned" /\ jobs[i].event.kind \in {"Deleted", "Renamed"} =>
                  LET path == IF jobs[i].event.kind = "Deleted" THEN jobs[i].event.path
                              ELSE jobs[i].event.from
                  IN  IF path \in PathsOf(files)
                      THEN /\ jobs'[i].pc \in {"delete_file", "renamed_delete_file"}
                           /\ jobs'[i].file_id \in IdsOf(files)
                           /\ RecordOf(files, jobs'[i].file_id).path = path
                      ELSE jobs'[i].pc \notin {"delete_file", "renamed_delete_file"}
            /\ jobs[i].pc = "renamed_store_file" =>
                  /\ jobs[i].file_id \notin IdsOf(files)
                  /\ UNCHANGED <<files, syncs, disk>>
            /\ jobs[i].event.kind \in {"Created", "Modified"} =>
                  UNCHANGED <<files, syncs, disk>>

C34_HandlerEffects == [](C34_Handled) /\ [][C34_Step]_vars

(* a Renamed was handled: the record of its path and its sync record are   *)
(* gone from the tables and from the document, and the content of "b" is  *)
(* in the store                                                            *)
C34_Witness ==
    \E i \in 1 .. Len(jobs) :
        /\ HandledOk(i, {"Renamed"})
        /\ jobs[i].file_id # 0
        /\ nextId = 3
        /\ disk.kind = "json" /\ disk.files = <<>> /\ disk.syncs = <<>>
        /\ files = <<>> /\ syncs = <<>>
        /\ jobs[i].event.to \in DOMAIN srcFiles
        /\ srcFiles[jobs[i].event.to] = <<0>>
        /\ Stored(<<0>>)

----------------------------------------------------------------------------
(* Claims about the chunk threshold *)

ManifestPaths(st) == DOMAIN st \ ObjectPaths(st)

ManifestPathOf(hash) == hash_to_path(ManifestPrefix \o hash)

(* C35: a store_chunked that succeeds on a file of at most ChunkSize bytes *)
(* (ChunkSize bytes included) returns the hash of the content, its length  *)
(* and the list of that one hash, leaves the content as the plain object   *)
(* at the hash, and leaves every manifest and every other object as it     *)
(* was; on a longer file it leaves a manifest at the file's hash.          *)
(* retrieve_chunked(h) returns, when a manifest exists for h, the          *)
(* concatenation of what retrieve_file returns for the manifest's chunks   *)
(* in their order (an error when one of them fails), and otherwise what    *)
(* retrieve_file(h) returns, NotFound included.                            *)
C35_Store ==
    last'.op = "store_chunked" /\ last'.ret.ok =>
        LET content == srcFiles[last'.source]
            hash == Sha256Hex(content)
        IN  IF Len(content) <= ChunkSize
            THEN /\ last'.ret.hash = hash
                 /\ last'.ret.size = Len(content)
                 /\ last'.ret.chunks = <<hash>>
                 /\ file_exists(objects', hash)
                 /\ objects'[hash_to_path(hash)].data = content
                 /\ ManifestPaths(objects') = ManifestPaths(objects)
                 /\ DOMAIN objects' = DOMAIN objects \cup {hash_to_path(hash)}
                 /\ \A path \in DOMAIN objects : objects'[path] = objects[path]
            ELSE /\ ManifestPathOf(hash) \in DOMAIN objects'
                 /\ ManifestFromJson(objects'[ManifestPathOf(hash)].data).chunks
                       = last'.ret.chunks

C35_Retrieve ==
    last'.op = "retrieve_chunked" =>
        IF ManifestPathOf(last'.hash) \in DOMAIN objects
        THEN LET manifest == ManifestFromJson(objects[ManifestPathOf(last'.hash)].data)
                 parts == [i \in 1 .. Len(manifest.chunks) |->
                              retrieve_file(objects, manifest.chunks[i])]
             IN  /\ manifest.ok
                 /\ IF \A i \in 1 .. Len(parts) : parts[i].ok
                    THEN last'.ret = OkData(Concat([i \in 1 .. Len(parts) |-> parts[i].data]))
                    ELSE ~last'.ret.ok
        ELSE last'.ret = retrieve_file(objects, last'.hash)

C35_ChunkThreshold == [][C35_Store /\ C35_Retrieve]_vars

(* a file of exactly ChunkSize bytes is a plain object and the store holds *)
(* no manifest, and retrieve_chunked of its hash has returned its bytes    *)
C35_Witness ==
    /\ last.op = "retrieve_chunked" /\ last.ret.ok
    /\ Len(last.ret.data) = ChunkSize
    /\ Sha256Hex(last.ret.data) = last.hash
    /\ ManifestPaths(objects) = {}

(* retrieve_chunked of a hash with no manifest and no object: NotFound *)
C35_NotFoundWitness ==
    /\ last.op = "retrieve_chunked" /\ last.ret = Err("NotFound")
    /\ ManifestPathOf(last.hash) \notin DOMAIN objects
    /\ objects # << >>

(* retrieve_chunked of a manifest one of whose chunks was deleted *)
C35_MissingChunkWitness ==
    /\ last.op = "retrieve_chunked" /\ ~last.ret.ok
    /\ ManifestPathOf(last.hash) \in DOMAIN objects

----------------------------------------------------------------------------
(* Claims about the objects when records are deleted *)

(* the step is one of a call or task that deletes a FileRecord *)
DeletingStep ==
    \/ \E t \in Tasks : StepOf(t) /\ task[t].op \in {"delete_file", "delete_version", "sync_file"}
    \/ \E t \in Tasks : StepOf(t) /\ task'[t].op \in {"delete_file", "delete_version", "sync_file"}
    \/ \E i \in 1 .. Len(jobs) : JobStep(i) /\ jobs[i].event.kind = "Deleted"

(* C36: a step that takes a FileRecord out of the table, and every other   *)
(* step of Repository::delete_file, of sync_file with Delete, of           *)
(* delete_version and of the handler of a Deleted event, leaves every      *)
(* object and every manifest of the store as it is; after delete_version   *)
(* returned, the content at the hash of the record it deleted is still     *)
(* retrieved, whole; and no step at all changes or removes an object or a  *)
(* manifest.                                                               *)
C36_Step ==
    /\ (DeletingStep \/ IdsOf(files) \ IdsOf(files') # {}) => objects' = objects
    /\ \A path \in DOMAIN objects :
          path \in DOMAIN objects' /\ objects'[path] = objects[path]

C36_StillRetrievable ==
    \A t \in Tasks :
        Returned(t, "delete_version") /\ task[t].ret.ok /\ task[t].seen[1].hash # None =>
            LET hash == task[t].seen[1].hash[1] IN
            /\ retrieve_chunked(objects, hash).ok
            /\ Sha256Hex(retrieve_chunked(objects, hash).data) = hash
            /\ Len(retrieve_chunked(objects, hash).data) = task[t].seen[1].size

C36_DeletionKeepsBlobs == [](C36_StillRetrievable) /\ [][C36_Step]_vars

(* delete_version has deleted the record of a file stored in chunks: no    *)
(* record is left, the manifest and the objects are in the store           *)
C36_Witness ==
    \E t \in Tasks :
        /\ Returned(t, "delete_version") /\ task[t].ret.ok
        /\ files = <<>>
        /\ task[t].seen[1].hash # None
        /\ ManifestPathOf(task[t].seen[1].hash[1]) \in DOMAIN objects
        /\ file_exists(objects, task[t].seen[1].hash[1])

----------------------------------------------------------------------------
(* Claims about uploads that run at once *)

(* no upload is running: every task is idle or has its response *)
UploadsCompleted == \A t \in Tasks : task[t].pc \in {"idle", "return"}

(* C37: when the uploads to a path have all completed, the hash in the     *)
(* path's FileRecord is the hash of the content of the file at the path,   *)
(* and the response of every upload answered 200 carries the hash of the   *)
(* body that upload sent.                                                  *)
C37_RecordMatchesFile ==
    UploadsCompleted =>
        \A k \in 1 .. Len(files) :
            files[k].path \in DOMAIN srcFiles =>
                files[k].hash = Some(Sha256Hex(srcFiles[files[k].path]))

C37_ResponseMatchesBody ==
    \A t \in Uploads :
        task[t].pc = "return" /\ task[t].status = "OK" =>
            task[t].new_file.hash = Some(Sha256Hex(task[t].body))

C37_UploadConsistency == C37_RecordMatchesFile /\ C37_ResponseMatchesBody

----------------------------------------------------------------------------
(* Claims about update_version *)

(* update_version has returned Ok, and no other task changed the tables    *)
(* while it ran                                                            *)
VersionedAlone(t) ==
    Returned(t, "update_version") /\ task[t].ret.ok /\ ~task[t].disturbed

(* C38: an update_version that found a record whose hash is the hash of    *)
(* the file returns that record, and the record in the table is the same;  *)
(* one that found a record with another hash returns the record with the   *)
(* file's hash and size and the version one greater; one that found no     *)
(* record returns a new record of the path with version 1.  The steps of   *)
(* a call that found the file's hash in the record change neither the      *)
(* tables nor the document nor the clock.                                  *)
C38_Returned ==
    \A t \in Tasks :
        VersionedAlone(t) =>
            LET tk == task[t]
                new == tk.ret.rec[1]
            IN  IF tk.seen = None
                THEN /\ new.version = 1
                     /\ new.path = tk.new_file.path
                     /\ new.hash = tk.new_file.hash
                     /\ RecordOf(files, new.id) = new
                ELSE IF tk.seen[1].hash = tk.new_file.hash
                THEN /\ new = tk.seen[1]
                     /\ RecordOf(files, new.id) = tk.seen[1]
                ELSE /\ new.id = tk.seen[1].id
                     /\ new.version = tk.seen[1].version + 1
                     /\ new.hash = tk.new_file.hash
                     /\ new.size = tk.new_file.size
                     /\ new.path = tk.seen[1].path
                     /\ RecordOf(files, new.id) = new

C38_Step ==
    \A t \in Tasks :
        StepOf(t) /\ task'[t].op = "update_version" =>
            /\ task[t].pc \notin {"version_update_file", "version_create_file"} =>
                  UNCHANGED <<files, syncs, clock, nextId>>
            /\ task[t].pc \in {"idle", "version_store_file"} => UNCHANGED disk
            /\ task[t].pc = "version_store_file" /\ task[t].seen # None =>
                  (task'[t].pc = "return" /\ task'[t].ret.ok
                      <=> task[t].seen[1].hash = Some(Sha256Hex(srcFiles[VersionedPath])))
            /\ task[t].pc = "version_update_file" /\ files' # files =>
                  RecordOf(files', task[t].file_id).version
                     = RecordOf(files, task[t].file_id).version + 1

C38_UpdateVersionIdempotent == [](C38_Returned) /\ [][C38_Step]_vars

(* a third update_version found the record at version 2 with the hash of   *)
(* the file and returned it as it was                                      *)
C38_Witness ==
    \E t \in Tasks :
        /\ VersionedAlone(t)
        /\ task[t].seen # None
        /\ task[t].seen[1].version = 2
        /\ task[t].seen[1].hash = task[t].new_file.hash
        /\ task[t].ret.rec = task[t].seen
        /\ files = <<task[t].seen[1]>>

----------------------------------------------------------------------------
(* Claims about the watcher on the storage root *)

(* the watcher has nothing left to do: every event of notify went through  *)
(* the closure and the channel, and every spawned task has ended           *)
Quiescent ==
    /\ taken = Len(raw)
    /\ sending = None
    /\ queue = <<>>
    /\ Running(jobs) = <<>>
    /\ task[Mutator].pc \in {"idle", "return"}

(* no step that writes under storage_path is ever held back by the bound   *)
(* on notify's events, and no more objects exist than there are contents   *)
(* to store                                                                *)
C39_Bounded ==
    /\ Len(raw) + 2 <= MaxOwnEvents
    /\ Cardinality(DOMAIN objects) <= 3

(* C39: with the watcher on the storage root, which holds the object       *)
(* directory and db.json, one change of a file from outside or one         *)
(* mutation of the metadata causes finitely many events and store          *)
(* operations: notify's events stay below a fixed number, and the watcher  *)
(* comes to rest, the writes of objects and of db.json the service makes   *)
(* itself included.                                                        *)
C39_WatcherQuiescence == [](C39_Bounded) /\ <>[]Quiescent

(* the watcher at rest after a record was deleted: db.json was rewritten,  *)
(* its bytes were stored as an object, and the events of that object were  *)
(* handled without a further write                                         *)
C39_Witness ==
    /\ Quiescent
    /\ files = <<>>
    /\ Len(raw) >= 5
    /\ \E p \in DOMAIN objects :
          /\ objects[p].data = srcFiles[DbFile]
          /\ \E k \in 1 .. Len(raw) : raw[k].ok /\ raw[k].paths = <<p>>

====
